---- MODULE Spec2Model ----
(***************************************************************************)
(* Bronze ingestion of the Container Offices workbook                       *)
(* (etl/ingest_excel.py, etl/utils.py, etl/config.py).                      *)
(*                                                                         *)
(* Text is a sequence of one-character strings, so that the substring,     *)
(* strip and lower-case operations of the code can be computed.  A cell of  *)
(* a worksheet is a record [k, n, s]: blank, a number n, a text s or a date. *)
(* A worksheet is a sparse grid <<row, column>> -> cell (1-based, as in     *)
(* openpyxl).  A workbook is a record of its bytes, its sheet names and its *)
(* sheets.                                                                  *)
(***************************************************************************)
EXTENDS Integers, Sequences, FiniteSets, TLC

VARIABLES store, log, pc, run, nruns, faults, call

vars == <<store, log, pc, run, nruns, faults, call>>

(***************************************************************************)
(* Bounds of the model.                                                     *)
(***************************************************************************)
MaxRuns == 3
MaxFaults == 1

(***************************************************************************)
(* Text helpers.                                                            *)
(***************************************************************************)
Upper == <<"A","B","C","D","E","F","G","H","I","J","K","L","M",
           "N","O","P","Q","R","S","T","U","V","W","X","Y","Z">>
Lower == <<"a","b","c","d","e","f","g","h","i","j","k","l","m",
           "n","o","p","q","r","s","t","u","v","w","x","y","z">>
Digits == <<"0","1","2","3","4","5","6","7","8","9">>

IsDigit(c) == \E i \in 1..10 : Digits[i] = c

DigitVal(c) == (CHOOSE i \in 1..10 : Digits[i] = c) - 1

\* str.lower() of one character
LowerChar(c) ==
    IF \E i \in 1..26 : Upper[i] = c
    THEN Lower[CHOOSE i \in 1..26 : Upper[i] = c]
    ELSE c

\* str.lower()
LowerStr(s) == [i \in 1..Len(s) |-> LowerChar(s[i])]

\* Python's "pat in s"
Contains(pat, s) ==
    \E i \in 0..(Len(s) - Len(pat)) :
        \A j \in 1..Len(pat) : s[i + j] = pat[j]

\* str.strip(): drop leading and trailing blanks
RECURSIVE LStrip(_)
LStrip(s) == IF s # <<>> /\ Head(s) = " " THEN LStrip(Tail(s)) ELSE s

RECURSIVE RStrip(_)
RStrip(s) ==
    IF s # <<>> /\ s[Len(s)] = " " THEN RStrip(SubSeq(s, 1, Len(s) - 1)) ELSE s

Strip(s) == RStrip(LStrip(s))

\* str(n) of a non-negative integer
RECURSIVE NatStr(_)
NatStr(n) == IF n < 10 THEN <<Digits[n + 1]>>
             ELSE NatStr(n \div 10) \o <<Digits[(n % 10) + 1]>>

IntStr(n) == IF n < 0 THEN <<"-">> \o NatStr(0 - n) ELSE NatStr(n)

\* value of a sequence of digits
RECURSIVE DigitsVal(_)
DigitsVal(s) == IF s = <<>> THEN 0
                ELSE 10 * DigitsVal(SubSeq(s, 1, Len(s) - 1)) + DigitVal(s[Len(s)])

AllDigits(s) == s # <<>> /\ \A i \in 1..Len(s) : IsDigit(s[i])

(***************************************************************************)
(* Cells and worksheets.                                                    *)
(***************************************************************************)
Blank == [k |-> "blank", n |-> 0, s |-> <<>>]
Num(x) == [k |-> "num", n |-> x, s |-> <<>>]
Txt(t) == [k |-> "str", n |-> 0, s |-> t]
\* a date cell of year y, month m (first day of the month)
Date(y, m) == [k |-> "date", n |-> 100 * y + m, s |-> <<>>]

\* a value of an extracted record: absent (None / NaN), or the number n / d
Null == [k |-> "null", n |-> 0, d |-> 1]
Val(x) == [k |-> "val", n |-> x, d |-> 1]

\* ws.cell(row, column).value
CellAt(ws, r, c) == IF <<r, c>> \in DOMAIN ws THEN ws[<<r, c>>] ELSE Blank

\* ws.max_column / ws.max_row
MaxCol(ws) == IF DOMAIN ws = {} THEN 1
              ELSE CHOOSE c \in {rc[2] : rc \in DOMAIN ws} :
                       \A rc \in DOMAIN ws : rc[2] <= c
MaxRow(ws) == IF DOMAIN ws = {} THEN 1
              ELSE CHOOSE r \in {rc[1] : rc \in DOMAIN ws} :
                       \A rc \in DOMAIN ws : rc[1] <= r

\* Python truthiness of a cell value: None, 0 and "" are falsy
Truthy(cell) ==
    \/ cell.k = "num" /\ cell.n # 0
    \/ cell.k = "str" /\ cell.s # <<>>
    \/ cell.k = "date"

\* two-digit rendering of a month or day number
TwoDigits(n) == IF n < 10 THEN <<"0">> \o NatStr(n) ELSE NatStr(n)

\* str(cell.value)
StrOf(cell) ==
    IF cell.k = "num" THEN IntStr(cell.n)
    ELSE IF cell.k = "date"
         THEN NatStr(cell.n \div 100) \o <<"-">> \o TwoDigits(cell.n % 100)
              \o <<"-","0","1"," ","0","0",":","0","0",":","0","0">>
         ELSE cell.s

\* float() that reads 0 where it should raise
ToFloat_Zero(cell) ==
    IF cell.k = "num" THEN Val(cell.n)
    ELSE IF cell.k = "date" THEN Val(0)
    ELSE LET t == Strip(cell.s) IN
         IF AllDigits(t) THEN Val(DigitsVal(t))
         ELSE IF t # <<>> /\ Head(t) = "-" /\ AllDigits(Tail(t))
              THEN Val(0 - DigitsVal(Tail(t)))
              ELSE Val(0)

\* float(cell.value): a number, or a text holding an integer literal;
\* anything else raises ValueError or TypeError (Null here)
ToFloat(cell) ==
    IF cell.k = "num" THEN Val(cell.n)
    ELSE IF cell.k = "date" THEN Null
    ELSE LET t == Strip(cell.s) IN
         IF AllDigits(t) THEN Val(DigitsVal(t))
         ELSE IF t # <<>> /\ Head(t) = "-" /\ AllDigits(Tail(t))
              THEN Val(0 - DigitsVal(Tail(t)))
              ELSE Null

(***************************************************************************)
(* Configuration (etl/config.py).                                           *)
(***************************************************************************)
DASHBOARD_SHEET_PATTERNS == << <<"d","a","s","h","b","o","a","r","d">>,
                               <<"2","0","2","5">>,
                               <<"2","0","2","6">> >>
LEASE_RATE_SHEET_PATTERNS == << <<"l","e","a","s","e">>, <<"r","a","t","e">> >>

\* the keys of month_map, in calendar order
MonthNames == <<
    <<"j","a","n","u","a","r","y">>,
    <<"f","e","b","r","u","a","r","y">>,
    <<"m","a","r","c","h">>,
    <<"a","p","r","i","l">>,
    <<"m","a","y">>,
    <<"j","u","n","e">>,
    <<"j","u","l","y">>,
    <<"a","u","g","u","s","t">>,
    <<"s","e","p","t","e","m","b","e","r">>,
    <<"o","c","t","o","b","e","r">>,
    <<"n","o","v","e","m","b","e","r">>,
    <<"d","e","c","e","m","b","e","r">> >>

\* labels of the header row that are not months
TargetLabels == { <<"c","o","l","l","e","c","t","i","o","n"," ","t","a","r","g","e","t">>,
                  <<"t","a","r","g","e","t">> }

(***************************************************************************)
(* Sheet locator.                                                           *)
(***************************************************************************)
\* first sheet (in workbook order) matching pattern pat, 0 if none
FirstMatch(sheetnames, pat) ==
    LET hits == {i \in 1..Len(sheetnames) :
                    Contains(LowerStr(pat), LowerStr(sheetnames[i]))}
    IN IF hits = {} THEN 0 ELSE CHOOSE i \in hits : \A j \in hits : i <= j

\* a loop over the sheets first: the first sheet matching any pattern
PickIndex_SheetOrder(sheetnames, patterns) ==
    LET hits == {i \in 1..Len(sheetnames) :
                    \E k \in 1..Len(patterns) :
                        Contains(LowerStr(patterns[k]), LowerStr(sheetnames[i]))}
    IN IF hits = {} THEN 0 ELSE CHOOSE i \in hits : \A j \in hits : i <= j

\* the loop over the patterns: index of the sheet found, 0 if none
RECURSIVE PickIndex(_, _)
PickIndex(sheetnames, patterns) ==
    IF patterns = <<>> THEN 0
    ELSE IF FirstMatch(sheetnames, Head(patterns)) # 0
         THEN FirstMatch(sheetnames, Head(patterns))
         ELSE PickIndex(sheetnames, Tail(patterns))

\* the None of pick_sheet (no sheet has an empty name)
NoSheet == <<>>

\* pick_sheet: workbook.sheetnames[i] of the sheet found, or None
pick_sheet(sheetnames, patterns) ==
    IF PickIndex(sheetnames, patterns) = 0 THEN NoSheet
    ELSE sheetnames[PickIndex(sheetnames, patterns)]

\* wb[sheet_name]
SheetOf(wb, sheet_name) ==
    wb.sheets[CHOOSE i \in 1..Len(wb.sheetnames) : wb.sheetnames[i] = sheet_name]

(***************************************************************************)
(* Dashboard-monthly extractor.                                             *)
(***************************************************************************)
\* month number of a header label, 0 when month_map has no such key
MonthOf(label) ==
    LET l == LowerStr(label)
        hits == {m \in 1..12 : MonthNames[m] = l}
    IN IF hits = {} THEN 0 ELSE CHOOSE m \in hits : TRUE

\* the labels of header row hr kept by the loop over ws[header_row]
RECURSIVE HeaderLabels(_, _, _, _)
HeaderLabels(ws, hr, c, last) ==
    IF c > last THEN <<>>
    ELSE LET cell == CellAt(ws, hr, c)
             val == Strip(StrOf(cell))
             keep == /\ Truthy(cell)
                     /\ val # <<>>
                     /\ LowerStr(val) \notin TargetLabels
         IN (IF keep THEN <<val>> ELSE <<>>) \o HeaderLabels(ws, hr, c + 1, last)

\* one metric cell: float(cell_value), None on a blank or a parse failure
Metric(ws, row, col) ==
    LET cell == CellAt(ws, row, col)
    IN IF cell.k = "blank" THEN Null ELSE ToFloat(cell)

\* the row built for the month_idx-th label (0-based), before the month map
DashRow(ws, labels, idx, year) ==
    [month           |-> IF MonthOf(labels[idx + 1]) = 0 THEN <<0, 0>>
                         ELSE <<year, MonthOf(labels[idx + 1])>>,
     rent_base       |-> Metric(ws, 30, 9 + idx),
     collected       |-> Metric(ws, 32, 9 + idx),
     uncollected     |-> Metric(ws, 33, 9 + idx),
     leased_sqft     |-> Metric(ws, 35, 9 + idx),
     price_per_sf_yr |-> Metric(ws, 36, 9 + idx)]

\* rows whose month resolved (dropna(subset=["month"]))
RECURSIVE DropNoMonth(_)
DropNoMonth(rows) ==
    IF rows = <<>> THEN <<>>
    ELSE (IF Head(rows).month = <<0, 0>> THEN <<>> ELSE <<Head(rows)>>)
         \o DropNoMonth(Tail(rows))

\* _extract_dashboard_structured: an empty label list makes df["month"] raise;
\* of as_of_month only the year is used
extract_dashboard_structured(ws, as_of_month) ==
    LET labels == HeaderLabels(ws, 29, 1, MaxCol(ws))
        data == [i \in 1..Len(labels) |-> DashRow(ws, labels, i - 1, as_of_month[1])]
    IN IF labels = <<>> THEN [ok |-> FALSE, rows |-> <<>>]
       ELSE [ok |-> TRUE, rows |-> DropNoMonth(data)]

\* ingest_dashboard_monthly up to the audit columns: the sheet is located
\* and read; ok = FALSE when the function raises
dashboard_frame(wb, as_of_month) ==
    LET sheet_name == pick_sheet(wb.sheetnames, DASHBOARD_SHEET_PATTERNS)
    IN IF sheet_name = NoSheet THEN [ok |-> FALSE, rows |-> <<>>]
       ELSE extract_dashboard_structured(SheetOf(wb, sheet_name), as_of_month)

(***************************************************************************)
(* Expenses extractor.                                                      *)
(***************************************************************************)
\* expense_items, in the order the dict lists them
expense_items == <<
    [row |-> 42, item |-> <<"E","l","e","c","t","r","i","c","i","t","y">>,
     category |-> "fixed"],
    [row |-> 43, item |-> <<"I","n","t","e","r","n","e","t">>,
     category |-> "fixed"],
    [row |-> 44, item |-> <<"Y","a","r","d","i"," ","B","r","e","e","z","e">>,
     category |-> "fixed"],
    [row |-> 45, item |-> <<"W","a","t","e","r">>,
     category |-> "fixed"],
    [row |-> 46, item |-> <<"P","e","s","t"," ","C","o","n","t","r","o","l">>,
     category |-> "fixed"],
    [row |-> 47, item |-> <<"S","u","p","p","l","i","e","s">>,
     category |-> "fixed"],
    [row |-> 48, item |-> <<"N","e","x","u","s"," ","t","r","a","s","h"," ","d","i","s","p","o","s","a","l">>,
     category |-> "fixed"],
    [row |-> 49, item |-> <<"I","n","s","u","r","a","n","c","e">>,
     category |-> "fixed"],
    [row |-> 50, item |-> <<"P","r","o","p","e","r","t","y"," ","m","a","n","a","g","e","m","e","n","t">>,
     category |-> "fixed"],
    [row |-> 53, item |-> <<"R","e","p","a","i","r","s">>,
     category |-> "variable"],
    [row |-> 54, item |-> <<"R","e","a","l"," ","E","s","t","a","t","e"," ","A","g","e","n","t">>,
     category |-> "variable"],
    [row |-> 55, item |-> <<"A","/","C"," ","M","a","i","n","t","e","n","a","n","c","e">>,
     category |-> "variable"],
    [row |-> 56, item |-> <<"B","a","n","k"," ","F","e","e","s">>,
     category |-> "variable"],
    [row |-> 57, item |-> <<"L","i","g","h","t"," ","f","i","x","t","u","r","e","s"," ","m","a","i","n","t","e","n","a","n","c","e">>,
     category |-> "variable"],
    [row |-> 60, item |-> <<"A","c","c","r","u","e","d"," ","P","r","o","p","e","r","t","y"," ","t","a","x">>,
     category |-> "other"],
    [row |-> 61, item |-> <<"O","t","h","e","r">>,
     category |-> "other"],
    [row |-> 66, item |-> <<"M","a","n","a","g","e","m","e","n","t"," ","-"," ","R","P">>,
     category |-> "other"],
    [row |-> 67, item |-> <<"O","t","h","e","r"," ","e","x","p","e","n","s","e","s">>,
     category |-> "other"],
    [row |-> 68, item |-> <<"C","A","P","E","X">>,
     category |-> "other"] >>

\* the labels of row 40, columns month_start_col .. month_start_col + 11
RECURSIVE ExpenseLabels(_, _)
ExpenseLabels(ws, c) ==
    IF c >= 9 + 12 THEN <<>>
    ELSE LET cell == CellAt(ws, 40, c)
             keep == Truthy(cell) /\ Strip(StrOf(cell)) # <<>>
         IN (IF keep THEN <<Strip(StrOf(cell))>> ELSE <<>>) \o ExpenseLabels(ws, c + 1)

\* the record of one (item row, month) cell, <<>> when the cell is skipped
ExpenseCell(ws, e, labels, idx, year) ==
    LET cell == CellAt(ws, e.row, 9 + idx)
        item_cell == CellAt(ws, e.row, 5)
        item == IF Truthy(item_cell) THEN Strip(StrOf(item_cell)) ELSE e.item
        actual == ToFloat(cell)
    IN IF cell.k = "blank" \/ actual = Null \/ MonthOf(labels[idx + 1]) = 0
       THEN <<>>
       ELSE << [month |-> <<year, MonthOf(labels[idx + 1])>>, item |-> item,
                actual |-> actual, expense_category |-> e.category] >>

RECURSIVE ExpenseRow(_, _, _, _, _)
ExpenseRow(ws, e, labels, idx, year) ==
    IF idx >= Len(labels) THEN <<>>
    ELSE ExpenseCell(ws, e, labels, idx, year) \o ExpenseRow(ws, e, labels, idx + 1, year)

RECURSIVE ExpenseData(_, _, _, _)
ExpenseData(ws, k, labels, year) ==
    IF k > Len(expense_items) THEN <<>>
    ELSE ExpenseRow(ws, expense_items[k], labels, 0, year)
         \o ExpenseData(ws, k + 1, labels, year)

\* ingest_expenses_monthly up to the metadata columns: ok = FALSE is the
\* None result; of as_of_month only the year is used
expenses_frame(wb, as_of_month) ==
    LET sheet_name == pick_sheet(wb.sheetnames, DASHBOARD_SHEET_PATTERNS)
        ws == SheetOf(wb, sheet_name)
        data == ExpenseData(ws, 1, ExpenseLabels(ws, 9), as_of_month[1])
    IN IF sheet_name = NoSheet THEN [ok |-> FALSE, rows |-> <<>>]
       ELSE IF data = <<>> THEN [ok |-> FALSE, rows |-> <<>>]
       ELSE [ok |-> TRUE, rows |-> data]

(***************************************************************************)
(* Text classifiers.                                                        *)
(***************************************************************************)
OWN_USE_PATTERNS == << <<"b","l","a","c","k"," ","l","a","b","e","l">>,
                       <<"o","w","n","e","r"," ","u","s","e">>,
                       <<"u","s","o"," ","p","r","o","p","i","o">>,
                       <<"1","0","1","b">> >>

\* the vacancy phrases without vacante and vacant
VACANCY_PATTERNS_Other == << <<"d","i","s","p","o","n","i","b","l","e">>, <<"a","v","a","i","l","a","b","l","e">> >>

VACANCY_PATTERNS == << <<"v","a","c","a","n","t","e">>,
                       <<"v","a","c","a","n","t">>,
                       <<"d","i","s","p","o","n","i","b","l","e">>,
                       <<"a","v","a","i","l","a","b","l","e">> >>

AnyPattern(patterns, text) ==
    \E i \in 1..Len(patterns) : Contains(patterns[i], text)

\* str(value) of a data-frame value; NaN prints as "nan"
ValueStr(cell) == IF cell.k = "blank" THEN <<"n","a","n">> ELSE StrOf(cell)

\* is_vacant without the test for null and empty
is_vacant_NoEmpty(tenant, vacancy_patterns) ==
    AnyPattern(vacancy_patterns, Strip(LowerStr(StrOf(tenant))))

\* is_vacant: NaN and falsy values are vacant
is_vacant(tenant, vacancy_patterns) ==
    IF tenant.k = "blank" \/ ~Truthy(tenant) THEN TRUE
    ELSE AnyPattern(vacancy_patterns, Strip(LowerStr(StrOf(tenant))))

\* is_own_use that looks at the tenant text only
is_own_use_TenantOnly(tenant_name, suite_id, own_use_patterns) ==
    AnyPattern(own_use_patterns, Strip(LowerStr(tenant_name)))

\* is_own_use over the two strings
is_own_use(tenant_name, suite_id, own_use_patterns) ==
    AnyPattern(own_use_patterns,
               Strip(LowerStr(tenant_name \o <<" ">> \o suite_id)))

\* extract_building without the upper-casing
extract_building_CaseSensitive(suite_id) ==
    LET suite_str == StrOf(suite_id)
        hits == {i \in 1..Len(suite_str) : suite_str[i] \in {"A", "B"}}
        first == CHOOSE i \in hits : \A j \in hits : i <= j
    IN IF suite_id.k = "blank" THEN "null"
       ELSE IF hits = {} THEN "null"
       ELSE suite_str[first]

\* str.upper() of one character
UpperChar(c) ==
    IF \E i \in 1..26 : Lower[i] = c
    THEN Upper[CHOOSE i \in 1..26 : Lower[i] = c]
    ELSE c

\* extract_building of a value (None / NaN is Blank): re.search(r'[AB]', ...)
\* on the upper-cased str(suite_id), the leftmost match
extract_building(suite_id) ==
    LET suite_str == [i \in 1..Len(StrOf(suite_id)) |-> UpperChar(StrOf(suite_id)[i])]
        hits == {i \in 1..Len(suite_str) : suite_str[i] \in {"A", "B"}}
        first == CHOOSE i \in hits : \A j \in hits : i <= j
    IN IF suite_id.k = "blank" THEN "null"
       ELSE IF hits = {} THEN "null"
       ELSE suite_str[first]

(***************************************************************************)
(* Lease-snapshot extractor.                                                *)
(***************************************************************************)
colSuite == <<"S","u","i","t","e">>
colTenant == <<"T","e","n","a","n","t">>
colSqFt == <<"S","q"," ","F","t">>
colMonthly == <<"M","o","n","t","h","l","y"," ","R","e","n","t"," ","(","$",")">>
colAnnual == <<"A","n","n","u","a","l"," ","R","e","n","t"," ","(","$",")">>
textUnknown == <<"U","n","k","n","o","w","n">>
textSuitePrefix == <<"S","U","I","T","E","_">>

\* pd.read_excel(header=3): the header is row 4, the data rows follow;
\* clean_dataframe drops the rows that are blank in every column
RowBlank(ws, r) == \A c \in 1..MaxCol(ws) : CellAt(ws, r, c).k = "blank"

RECURSIVE DataRows(_, _)
DataRows(ws, r) ==
    IF r > MaxRow(ws) THEN <<>>
    ELSE (IF RowBlank(ws, r) THEN <<>> ELSE <<r>>) \o DataRows(ws, r + 1)

ColBlank(ws, c) == \A r \in 5..MaxRow(ws) : CellAt(ws, r, c).k = "blank"

\* an object column: some data cell holds text
ColIsObject(ws, c) == \E r \in 5..MaxRow(ws) : CellAt(ws, r, c).k = "str"

\* a float column: numbers with at least one NaN among the kept rows
ColHasNaN(ws, c) ==
    \E i \in 1..Len(DataRows(ws, 5)) : CellAt(ws, DataRows(ws, 5)[i], c).k = "blank"

\* the column named name after clean_dataframe (columns blank in every row
\* are dropped; of two columns of one name the first keeps it), 0 if none
ColumnOf(ws, name) ==
    LET hits == {c \in 1..MaxCol(ws) : CellAt(ws, 4, c) = Txt(name)}
        first == CHOOSE c \in hits : \A d \in hits : c <= d
    IN IF hits = {} THEN 0
       ELSE IF ColBlank(ws, first) THEN 0 ELSE first

\* a cell after clean_dataframe: x.str.strip() on an object column strips
\* the texts and turns every other value into NaN
CleanCell(ws, r, c) ==
    LET cell == CellAt(ws, r, c)
    IN IF ColIsObject(ws, c)
       THEN (IF cell.k = "str" THEN Txt(Strip(cell.s)) ELSE Blank)
       ELSE cell

\* coerce_numeric (pd.to_numeric, errors='coerce') of one value
coerce_numeric(cell) == IF cell.k = "blank" THEN Null ELSE ToFloat(cell)

RECURSIVE Gcd(_, _)
Gcd(a, b) == IF b = 0 THEN a ELSE Gcd(b, a % b)

Abs(x) == IF x < 0 THEN 0 - x ELSE x

\* the quotient a / b of two numbers, b > 0, in lowest terms
Quotient(a, b) ==
    LET g == Gcd(Abs(a.n) * b.d, b.n * a.d)
    IN IF a.n = 0 THEN Val(0)
       ELSE [k |-> "val", n |-> (a.n * b.d) \div g, d |-> (b.n * a.d) \div g]

\* the lambda without the division
rent_psf_yr_NoDivision(rent_annual, sqft) ==
    IF sqft.k = "val" /\ sqft.n > 0 THEN rent_annual ELSE Val(0)

\* the rent_psf_yr lambda
rent_psf_yr(rent_annual, sqft) ==
    IF sqft.k = "val" /\ sqft.n > 0
    THEN (IF rent_annual.k = "null" THEN Null ELSE Quotient(rent_annual, sqft))
    ELSE Val(0)

\* suite_id of the i-th kept row: generated when the sheet has no Suite
\* column, else fillna("").astype(str)
SuiteId(ws, rows, i) ==
    LET c == ColumnOf(ws, colSuite)
        cell == CleanCell(ws, rows[i], c)
    IN IF c = 0 THEN textSuitePrefix \o NatStr(i)
       ELSE IF cell.k = "blank" THEN <<>>
       ELSE IF cell.k = "str" THEN cell.s
       ELSE IF ColHasNaN(ws, c) THEN IntStr(cell.n) \o <<".", "0">>
       ELSE IntStr(cell.n)

NumericField(ws, r, name) ==
    IF ColumnOf(ws, name) = 0 THEN Val(0)
    ELSE coerce_numeric(CleanCell(ws, r, ColumnOf(ws, name)))

LeaseRow(ws, rows, i) ==
    LET suite == SuiteId(ws, rows, i)
        tenant == IF ColumnOf(ws, colTenant) = 0 THEN Txt(textUnknown)
                  ELSE CleanCell(ws, rows[i], ColumnOf(ws, colTenant))
        sqft == NumericField(ws, rows[i], colSqFt)
        annual == NumericField(ws, rows[i], colAnnual)
    IN [suite_id     |-> suite,
        building     |-> extract_building(Txt(suite)),
        tenant       |-> tenant,
        sqft         |-> sqft,
        rent_monthly |-> NumericField(ws, rows[i], colMonthly),
        rent_annual  |-> annual,
        rent_psf_yr  |-> rent_psf_yr(annual, sqft),
        is_vacant    |-> is_vacant(tenant, VACANCY_PATTERNS),
        is_own_use   |-> is_own_use(ValueStr(tenant), suite, OWN_USE_PATTERNS)]

\* DropNoSuite that removes nothing
DropNoSuite_Keep(rows) == rows

\* rows with an empty suite_id are removed
RECURSIVE DropNoSuite(_)
DropNoSuite(rows) ==
    IF rows = <<>> THEN <<>>
    ELSE (IF Strip(Head(rows).suite_id) = <<>> THEN <<>> ELSE <<Head(rows)>>)
         \o DropNoSuite(Tail(rows))

\* ingest_lease_rate_snapshot up to the audit columns; ok = FALSE when the
\* function raises
lease_frame(wb) ==
    LET sheet_name == pick_sheet(wb.sheetnames, LEASE_RATE_SHEET_PATTERNS)
        ws == SheetOf(wb, sheet_name)
        rows == DataRows(ws, 5)
        data == DropNoSuite([i \in 1..Len(rows) |-> LeaseRow(ws, rows, i)])
    IN IF sheet_name = NoSheet THEN [ok |-> FALSE, rows |-> <<>>]
       ELSE [ok |-> TRUE, rows |-> data]

(***************************************************************************)
(* Period detector.  A period is <<year, month>>; NaT is <<0, 0>>.          *)
(***************************************************************************)
NaT == <<0, 0>>

textMonth == <<"m","o","n","t","h">>
textPeriod == <<"p","e","r","i","o","d">>

\* a text of the form YYYY-MM or YYYY-MM-DD naming a real month
ParseDateText(t) ==
    IF /\ Len(t) \in {7, 10}
       /\ AllDigits(SubSeq(t, 1, 4))
       /\ t[5] = "-"
       /\ AllDigits(SubSeq(t, 6, 7))
       /\ DigitsVal(SubSeq(t, 6, 7)) \in 1..12
       /\ Len(t) = 10 => (t[8] = "-" /\ AllDigits(SubSeq(t, 9, 10))
                          /\ DigitsVal(SubSeq(t, 9, 10)) \in 1..28)
    THEN <<DigitsVal(SubSeq(t, 1, 4)), DigitsVal(SubSeq(t, 6, 7))>>
    ELSE NaT

\* pd.to_datetime(value, errors='coerce'): a date is itself, a number counts
\* nanoseconds from 1970-01-01, a text is parsed
ToDatetime(cell) ==
    IF cell.k = "date" THEN <<cell.n \div 100, cell.n % 100>>
    ELSE IF cell.k = "num" THEN <<1970, 1>>
    ELSE IF cell.k = "str" THEN ParseDateText(Strip(cell.s))
    ELSE NaT

\* texts that pd.read_excel reads as missing values (its default na_values)
STR_NA_VALUES == { <<>>, <<"n","/","a">>, <<"N","/","A">>, <<"N","A">>, <<"#","N","/","A">>, <<"n","a","n">>, <<"N","a","N">>,
                   <<"n","u","l","l">>, <<"N","U","L","L">>, <<"N","o","n","e">>, <<"<","N","A",">">> }

\* the cell is missing in the frame pd.read_excel builds
IsNA(cell) == cell.k = "blank" \/ (cell.k = "str" /\ cell.s \in STR_NA_VALUES)

\* strategy 1: the column of the dashboard sheet headed "month" in row 29,
\* its first non-null value below the header
MonthColumn(ws) ==
    LET hits == {c \in 1..MaxCol(ws) :
                    /\ CellAt(ws, 29, c).k = "str"
                    /\ LowerStr(CellAt(ws, 29, c).s) = textMonth}
        col == CHOOSE c \in hits : \A d \in hits : c <= d
        filled == {r \in 30..MaxRow(ws) : ~IsNA(CellAt(ws, r, col))}
        first == CHOOSE r \in filled : \A q \in filled : r <= q
    IN IF hits = {} \/ filled = {} THEN NaT
       ELSE ToDatetime(CellAt(ws, first, col))

\* strategy 2 on one sheet: the first cell (row by row, within the first 50
\* rows) that contains "period" and has a date one or two cells to its right
PeriodCellDate(ws, rc) ==
    IF Truthy(CellAt(ws, rc[1], rc[2] + 1))
       /\ ToDatetime(CellAt(ws, rc[1], rc[2] + 1)) # NaT
    THEN ToDatetime(CellAt(ws, rc[1], rc[2] + 1))
    ELSE IF Truthy(CellAt(ws, rc[1], rc[2] + 2))
         THEN ToDatetime(CellAt(ws, rc[1], rc[2] + 2))
         ELSE NaT

PeriodCell(ws) ==
    LET hits == {rc \in DOMAIN ws :
                    /\ rc[1] <= 50
                    /\ ws[rc].k = "str"
                    /\ Contains(textPeriod, LowerStr(ws[rc].s))
                    /\ PeriodCellDate(ws, rc) # NaT}
        first == CHOOSE rc \in hits :
                    \A q \in hits : rc[1] < q[1] \/ (rc[1] = q[1] /\ rc[2] <= q[2])
    IN IF hits = {} THEN NaT ELSE PeriodCellDate(ws, first)

RECURSIVE PeriodCellAnySheet(_, _)
PeriodCellAnySheet(wb, i) ==
    IF i > Len(wb.sheetnames) THEN NaT
    ELSE IF PeriodCell(wb.sheets[i]) # NaT THEN PeriodCell(wb.sheets[i])
    ELSE PeriodCellAnySheet(wb, i + 1)

\* Path(excel_path).stem: the name without its last suffix
Stem(name) ==
    LET dots == {i \in 2..Len(name) : name[i] = "."}
        last == CHOOSE i \in dots : \A j \in dots : j <= i
    IN IF dots = {} THEN name ELSE SubSeq(name, 1, last - 1)

\* strategy 3: re.search(r'(20\d{2})[-_](\d{2})', stem), leftmost match
FilenamePeriod(name) ==
    LET st == Stem(name)
        hits == {i \in 1..(Len(st) - 6) :
                    /\ st[i] = "2" /\ st[i + 1] = "0"
                    /\ IsDigit(st[i + 2]) /\ IsDigit(st[i + 3])
                    /\ st[i + 4] \in {"-", "_"}
                    /\ IsDigit(st[i + 5]) /\ IsDigit(st[i + 6])}
        first == CHOOSE i \in hits : \A j \in hits : i <= j
    IN IF hits = {} THEN NaT
       ELSE <<DigitsVal(SubSeq(st, first, first + 3)),
              DigitsVal(SubSeq(st, first + 5, first + 6))>>

\* detect_as_of_month that looks at the file name before the Period cells
detect_as_of_month_NameFirst(name, wb, dashboard_sheet, now) ==
    IF dashboard_sheet # NoSheet /\ MonthColumn(SheetOf(wb, dashboard_sheet)) # NaT
    THEN MonthColumn(SheetOf(wb, dashboard_sheet))
    ELSE IF FilenamePeriod(name) # NaT THEN FilenamePeriod(name)
    ELSE IF PeriodCellAnySheet(wb, 1) # NaT THEN PeriodCellAnySheet(wb, 1)
    ELSE now

\* detect_as_of_month; now is the current month of the system clock
detect_as_of_month(name, wb, dashboard_sheet, now) ==
    IF dashboard_sheet # NoSheet /\ MonthColumn(SheetOf(wb, dashboard_sheet)) # NaT
    THEN MonthColumn(SheetOf(wb, dashboard_sheet))
    ELSE IF PeriodCellAnySheet(wb, 1) # NaT THEN PeriodCellAnySheet(wb, 1)
    ELSE IF FilenamePeriod(name) # NaT THEN FilenamePeriod(name)
    ELSE now

(***************************************************************************)
(* The files the ingestion is run on.  A file is a name and a content; the  *)
(* contents are drawn from the workbooks below, each with its own bytes.    *)
(***************************************************************************)
nameDashboard == <<"D","a","s","h","b","o","a","r","d"," ","2","0","2","5">>
nameLease == <<"L","e","a","s","e"," ","R","a","t","e">>

\* dashboard sheet: January column with metrics, a Period cell, one expense
SheetDash(rent_base, with_period) ==
    (<<29, 1>> :> Txt(<<"C","o","l","l","e","c","t","i","o","n"," ","T","a","r","g","e","t">>)) @@
    (<<29, 9>> :> Txt(<<"J","a","n","u","a","r","y">>)) @@
    (<<30, 9>> :> Num(rent_base)) @@ (<<32, 9>> :> Num(9)) @@
    (<<33, 9>> :> Num(0 - 1)) @@ (<<35, 9>> :> Txt(<<"n","/","a">>)) @@
    (<<40, 9>> :> Txt(<<"J","a","n","u","a","r","y">>)) @@ (<<42, 9>> :> Num(5)) @@
    (IF with_period
     THEN (<<1, 1>> :> Txt(<<"P","e","r","i","o","d",":">>)) @@ (<<1, 2>> :> Date(2025, 1))
     ELSE <<>>)

\* dashboard sheet whose only header label is not a month: no dashboard row,
\* no expense data
SheetDashNoMonth ==
    (<<1, 1>> :> Txt(<<"P","e","r","i","o","d",":">>)) @@ (<<1, 3>> :> Txt(<<"2","0","2","5","-","0","1">>)) @@
    (<<29, 9>> :> Txt(<<"T","o","t","a","l">>)) @@ (<<30, 9>> :> Num(10))

\* lease sheet: header in row 4, two suites
SheetLease(second_suite, annual, with_period) ==
    (<<4, 1>> :> Txt(colSuite)) @@ (<<4, 2>> :> Txt(colTenant)) @@
    (<<4, 3>> :> Txt(colSqFt)) @@ (<<4, 4>> :> Txt(colAnnual)) @@
    (<<5, 1>> :> Txt(<<"1","0","1","A">>)) @@ (<<5, 2>> :> Txt(<<"A","c","m","e">>)) @@
    (<<5, 3>> :> Num(4)) @@ (<<5, 4>> :> Num(annual)) @@
    (<<6, 1>> :> Txt(second_suite)) @@ (<<6, 2>> :> Txt(<<"V","A","C","A","N","T","E">>)) @@
    (<<6, 3>> :> Num(0)) @@ (<<6, 4>> :> Num(0)) @@
    (IF with_period
     THEN (<<2, 1>> :> Txt(<<"P","e","r","i","o","d",":">>)) @@ (<<2, 2>> :> Date(2025, 1))
     ELSE <<>>)

Workbooks == <<
    \* 1: a regular workbook for 2025-01
    [bytes |-> 1, valid |-> TRUE,
     sheetnames |-> <<nameDashboard, nameLease>>,
     sheets |-> <<SheetDash(10, TRUE), SheetLease(<<"1","0","1","B">>, 12, FALSE)>>],
    \* 2: no header label of the dashboard names a month
    [bytes |-> 2, valid |-> TRUE,
     sheetnames |-> <<nameDashboard, nameLease>>,
     sheets |-> <<SheetDashNoMonth, SheetLease(<<"1","0","1","B">>, 12, FALSE)>>],
    \* 3: no period in the content, a suite listed twice, negative amounts
    [bytes |-> 3, valid |-> TRUE,
     sheetnames |-> <<nameLease, nameDashboard>>,
     sheets |-> <<SheetLease(<<"1","0","1","A">>, 0 - 12, FALSE),
                  SheetDash(0 - 10, FALSE)>>],
    \* 4: no lease sheet
    [bytes |-> 4, valid |-> TRUE,
     sheetnames |-> <<nameDashboard>>,
     sheets |-> <<SheetDash(10, TRUE)>>],
    \* 5: no dashboard sheet
    [bytes |-> 5, valid |-> TRUE,
     sheetnames |-> <<nameLease>>,
     sheets |-> <<SheetLease(<<"1","0","1","B">>, 12, TRUE)>>],
    \* 6: bytes that are not a workbook
    [bytes |-> 6, valid |-> FALSE, sheetnames |-> <<>>, sheets |-> <<>>] >>

FileNames == << <<"t","c","o",".","x","l","s","x">>,
               <<"t","c","o","_","2","0","2","5","-","0","1",".","x","l","s","x">> >>

\* the files on disk: workbook w stored under the name FileNames[n]
InputFiles == { [n |-> 1, w |-> 1], [n |-> 2, w |-> 1], [n |-> 1, w |-> 2],
                [n |-> 1, w |-> 3], [n |-> 2, w |-> 3], [n |-> 1, w |-> 4],
                [n |-> 1, w |-> 5], [n |-> 1, w |-> 6] }

\* the months the system clock may show during the runs
ClockMonths == { <<2026, 11>>, <<2026, 12>> }

\* the years of the periods that the files and the clock can yield
Years == {2025, 2026}

(***************************************************************************)
(* The three extractors are pure functions of the workbook and of the year  *)
(* of the period; their frames are tabulated once for the workbooks above.  *)
(***************************************************************************)
DashboardFrames ==
    [w \in 1..Len(Workbooks) |->
        [y \in Years |-> IF Workbooks[w].valid
                         THEN dashboard_frame(Workbooks[w], <<y, 1>>)
                         ELSE [ok |-> FALSE, rows |-> <<>>]]]

ExpensesFrames ==
    [w \in 1..Len(Workbooks) |->
        [y \in Years |-> IF Workbooks[w].valid
                         THEN expenses_frame(Workbooks[w], <<y, 1>>)
                         ELSE [ok |-> FALSE, rows |-> <<>>]]]

LeaseFrames ==
    [w \in 1..Len(Workbooks) |->
        IF Workbooks[w].valid THEN lease_frame(Workbooks[w])
        ELSE [ok |-> FALSE, rows |-> <<>>]]

\* Audit without the fingerprint column
Audit_NoFingerprint(df, table, as_of_month, file_md5, now) ==
    [ok |-> df.ok,
     rows |-> [i \in 1..Len(df.rows) |->
                 [table |-> table, data |-> df.rows[i],
                  as_of_month |-> as_of_month,
                  file_md5 |-> 0, ingested_at |-> now]]]

\* the audit columns attached as the last step of every extractor
Audit(df, table, as_of_month, file_md5, now) ==
    [ok |-> df.ok,
     rows |-> [i \in 1..Len(df.rows) |->
                 [table |-> table, data |-> df.rows[i],
                  as_of_month |-> as_of_month,
                  file_md5 |-> file_md5, ingested_at |-> now]]]

\* ingest_dashboard_monthly on workbook w
ingest_dashboard_monthly(w, as_of_month, file_md5, now) ==
    Audit(DashboardFrames[w][as_of_month[1]], "dashboard",
          as_of_month, file_md5, now)

\* ingest_expenses_monthly on workbook w
ingest_expenses_monthly(w, as_of_month, file_md5, now) ==
    Audit(ExpensesFrames[w][as_of_month[1]], "expenses",
          as_of_month, file_md5, now)

\* ingest_lease_rate_snapshot on workbook w
ingest_lease_rate_snapshot(w, as_of_month, file_md5, now) ==
    Audit(LeaseFrames[w], "lease_rate", as_of_month, file_md5, now)

(***************************************************************************)
(* Fingerprint, idempotency guard, partition writer, audit log.             *)
(*                                                                         *)
(* store maps <<table, as_of_month>> (a partition directory) to the         *)
(* sequence of its record files, each [name, rows]; log is the audit log.   *)
(***************************************************************************)
Tables == {"dashboard", "expenses", "lease_rate"}

\* compute_file_md5: the digest of the bytes of the file, whatever its name
compute_file_md5(file) == Workbooks[file.wb].bytes

Files(st, key) == IF key \in DOMAIN st THEN st[key] ELSE <<>>

\* the fingerprints carried by the records of a file
Md5sOf(file) == {file.rows[i].file_md5 : i \in 1..Len(file.rows)}

\* a guard that takes any data in the partition for a previous ingestion
check_already_ingested_AnyData(st, file_md5, as_of_month, table) ==
    /\ <<table, as_of_month>> \in DOMAIN st
    /\ Files(st, <<table, as_of_month>>) # <<>>

\* check_already_ingested: one sample file of the partition is read
check_already_ingested(st, file_md5, as_of_month, table) ==
    LET parquet_files == Files(st, <<table, as_of_month>>)
    IN IF <<table, as_of_month>> \notin DOMAIN st THEN FALSE
       ELSE IF parquet_files = <<>> THEN FALSE
       ELSE file_md5 \in Md5sOf(parquet_files[1])

\* partition_path.mkdir(parents=True, exist_ok=True)
MkDir(st, key) == IF key \in DOMAIN st THEN st ELSE (key :> <<>>) @@ st

\* to_parquet that adds a file whatever the partition holds
WriteFile_Append(files, name, rows) ==
    Append(files, [name |-> name, rows |-> rows])

\* df.to_parquet(output_file): the file of that name is created or replaced
WriteFile(files, name, rows) ==
    IF \E i \in 1..Len(files) : files[i].name = name
    THEN [i \in 1..Len(files) |->
             IF files[i].name = name THEN [name |-> name, rows |-> rows]
             ELSE files[i]]
    ELSE Append(files, [name |-> name, rows |-> rows])

\* save_bronze_partition: the file is named after the table and the month
save_bronze_partition(st, rows, table, as_of_month) ==
    LET key == <<table, as_of_month>>
        output_file == <<table, as_of_month>>
    IN [MkDir(st, key) EXCEPT ![key] = WriteFile(@, output_file, rows)]

\* log_ingestion: one line is appended
log_ingestion(lg, file_md5, as_of_month, rows_ingested, started_at, now, status) ==
    Append(lg, [file_md5 |-> file_md5, as_of_month |-> as_of_month,
                rows_ingested |-> rows_ingested, started_at |-> started_at,
                finished_at |-> now, status |-> status])

(***************************************************************************)
(* One ingestion run (main of etl/ingest_excel.py) of process p.            *)
(* nruns counts the runs started and serves as the clock of the timestamps; *)
(* faults counts the partition writes that raised.  run[p] holds the locals *)
(* of the run and, for the properties, the storage and the log as the run   *)
(* found them, how the run ended, and the previous run.                     *)
(***************************************************************************)
Procs == {1, 2}

NoRun == [name |-> <<>>, wb |-> 0, started_at |-> 0, file_md5 |-> 0,
          as_of_month |-> NaT, total_rows |-> 0, outcome |-> "none",
          failed_at |-> "none", expenses |-> "none",
          store0 |-> <<>>, log0 |-> <<>>, faults0 |-> 0,
          prev |-> [name |-> <<>>, file_md5 |-> 0, as_of_month |-> NaT,
                    outcome |-> "none"]]

\* no function of the library is being called
NoCall == [fn |-> "none"]

Summary(r) == [name |-> r.name, file_md5 |-> r.file_md5,
               as_of_month |-> r.as_of_month, outcome |-> r.outcome]

Init ==
    /\ store = <<>>
    /\ log = <<>>
    /\ pc = [p \in Procs |-> "idle"]
    /\ run = [p \in Procs |-> NoRun]
    /\ nruns = 0
    /\ faults = 0
    /\ call = NoCall

\* a partition write either succeeds or raises (at most MaxFaults raise)
WriteOutcomes == IF faults < MaxFaults THEN BOOLEAN ELSE {TRUE}

\* main is called on a file (lines 448-461)
Start(p, name, w) ==
    /\ pc[p] \in {"idle", "done"}
    /\ nruns < MaxRuns
    /\ nruns' = nruns + 1
    /\ run' = [run EXCEPT ![p] =
                 [NoRun EXCEPT !.name = name, !.wb = w,
                               !.started_at = nruns + 1,
                               !.outcome = "running",
                               !.store0 = store, !.log0 = log,
                               !.faults0 = faults,
                               !.prev = Summary(run[p])]]
    /\ pc' = [pc EXCEPT ![p] = "detect"]
    /\ UNCHANGED <<store, log, faults, call>>

\* fingerprint and period (lines 463-471); a file that is not a workbook
\* makes load_workbook raise, outside every try block; now is the month the
\* system clock shows
Detect(p, now) ==
    /\ pc[p] = "detect"
    /\ LET wb == Workbooks[run[p].wb]
           dashboard_sheet == pick_sheet(wb.sheetnames, DASHBOARD_SHEET_PATTERNS)
       IN IF ~wb.valid
          THEN /\ run' = [run EXCEPT ![p].file_md5 = compute_file_md5(run[p]),
                                     ![p].outcome = "raised"]
               /\ pc' = [pc EXCEPT ![p] = "done"]
          ELSE /\ run' = [run EXCEPT
                            ![p].file_md5 = compute_file_md5(run[p]),
                            ![p].as_of_month =
                                detect_as_of_month(run[p].name, wb,
                                                   dashboard_sheet, now)]
               /\ pc' = [pc EXCEPT ![p] = "check"]
    /\ UNCHANGED <<store, log, nruns, faults, call>>

\* Check without the return of the skipped branch
Check_NoReturn(p) ==
    /\ pc[p] = "check"
    /\ IF check_already_ingested(store, run[p].file_md5, run[p].as_of_month,
                                 "dashboard")
       THEN /\ log' = log_ingestion(log, run[p].file_md5, run[p].as_of_month,
                                    0, run[p].started_at, nruns, "skipped")
            /\ run' = [run EXCEPT ![p].outcome = "skipped"]
       ELSE UNCHANGED <<log, run>>
    /\ pc' = [pc EXCEPT ![p] = "dashboard"]
    /\ UNCHANGED <<store, nruns, faults, call>>

\* the idempotency guard (lines 473-482)
Check(p) ==
    /\ pc[p] = "check"
    /\ IF check_already_ingested(store, run[p].file_md5, run[p].as_of_month,
                                 "dashboard")
       THEN /\ log' = log_ingestion(log, run[p].file_md5, run[p].as_of_month,
                                    0, run[p].started_at, nruns, "skipped")
            /\ run' = [run EXCEPT ![p].outcome = "skipped"]
            /\ pc' = [pc EXCEPT ![p] = "done"]
       ELSE /\ pc' = [pc EXCEPT ![p] = "dashboard"]
            /\ UNCHANGED <<log, run>>
    /\ UNCHANGED <<store, nruns, faults, call>>

\* Dashboard without the raise of the except branch
Dashboard_NoRaise(p, write_ok) ==
    /\ pc[p] = "dashboard"
    /\ LET r == run[p]
           df == ingest_dashboard_monthly(r.wb, r.as_of_month,
                                          r.file_md5, nruns)
       IN /\ faults' = IF df.ok /\ ~write_ok THEN faults + 1 ELSE faults
          /\ IF df.ok /\ write_ok
             THEN /\ store' = save_bronze_partition(store, df.rows,
                                                    "dashboard", r.as_of_month)
                  /\ run' = [run EXCEPT ![p].total_rows = @ + Len(df.rows)]
                  /\ UNCHANGED log
             ELSE /\ store' = IF df.ok
                              THEN MkDir(store, <<"dashboard", r.as_of_month>>)
                              ELSE store
                  /\ log' = log_ingestion(log, r.file_md5, r.as_of_month, 0,
                                          r.started_at, nruns, "failed")
                  /\ UNCHANGED run
    /\ pc' = [pc EXCEPT ![p] = "expenses"]
    /\ UNCHANGED <<nruns, call>>

\* dashboard, required (lines 484-492); the partition write may raise
Dashboard(p, write_ok) ==
    /\ pc[p] = "dashboard"
    /\ LET r == run[p]
           df == ingest_dashboard_monthly(r.wb, r.as_of_month,
                                          r.file_md5, nruns)
       IN /\ faults' = IF df.ok /\ ~write_ok THEN faults + 1 ELSE faults
          /\ IF df.ok /\ write_ok
             THEN /\ store' = save_bronze_partition(store, df.rows,
                                                    "dashboard", r.as_of_month)
                  /\ run' = [run EXCEPT ![p].total_rows = @ + Len(df.rows)]
                  /\ pc' = [pc EXCEPT ![p] = "expenses"]
                  /\ UNCHANGED log
             ELSE /\ store' = IF df.ok
                              THEN MkDir(store, <<"dashboard", r.as_of_month>>)
                              ELSE store
                  /\ log' = log_ingestion(log, r.file_md5, r.as_of_month, 0,
                                          r.started_at, nruns, "failed")
                  /\ run' = [run EXCEPT ![p].outcome = "failed",
                                        ![p].failed_at = "dashboard"]
                  /\ pc' = [pc EXCEPT ![p] = "done"]
    /\ UNCHANGED <<nruns, call>>

\* Expenses handled as a required source: a failure ends the run
Expenses_Required(p, write_ok) ==
    /\ pc[p] = "expenses"
    /\ LET r == run[p]
           df == ingest_expenses_monthly(r.wb, r.as_of_month,
                                         r.file_md5, nruns)
           has_data == df.ok /\ Len(df.rows) > 0
       IN /\ faults' = IF has_data /\ ~write_ok THEN faults + 1 ELSE faults
          /\ IF has_data /\ write_ok
             THEN /\ store' = save_bronze_partition(store, df.rows,
                                                    "expenses", r.as_of_month)
                  /\ run' = [run EXCEPT ![p].total_rows = @ + Len(df.rows),
                                        ![p].expenses = "saved"]
                  /\ pc' = [pc EXCEPT ![p] = "lease"]
                  /\ UNCHANGED log
             ELSE /\ store' = IF has_data
                              THEN MkDir(store, <<"expenses", r.as_of_month>>)
                              ELSE store
                  /\ log' = log_ingestion(log, r.file_md5, r.as_of_month,
                                          r.total_rows, r.started_at, nruns,
                                          "failed")
                  /\ run' = [run EXCEPT ![p].outcome = "failed",
                                        ![p].expenses =
                                IF has_data THEN "write_failed" ELSE "no_data"]
                  /\ pc' = [pc EXCEPT ![p] = "done"]
    /\ UNCHANGED <<nruns, call>>

\* expenses, optional (lines 494-501): every failure is swallowed
Expenses(p, write_ok) ==
    /\ pc[p] = "expenses"
    /\ LET r == run[p]
           df == ingest_expenses_monthly(r.wb, r.as_of_month,
                                         r.file_md5, nruns)
           has_data == df.ok /\ Len(df.rows) > 0
       IN /\ faults' = IF has_data /\ ~write_ok THEN faults + 1 ELSE faults
          /\ IF has_data /\ write_ok
             THEN /\ store' = save_bronze_partition(store, df.rows,
                                                    "expenses", r.as_of_month)
                  /\ run' = [run EXCEPT ![p].total_rows = @ + Len(df.rows),
                                        ![p].expenses = "saved"]
             ELSE /\ store' = IF has_data
                              THEN MkDir(store, <<"expenses", r.as_of_month>>)
                              ELSE store
                  /\ run' = [run EXCEPT ![p].expenses =
                                IF has_data THEN "write_failed" ELSE "no_data"]
    /\ pc' = [pc EXCEPT ![p] = "lease"]
    /\ UNCHANGED <<log, nruns, call>>

\* lease snapshot, required, and the success entry (lines 503-514)
Lease(p, write_ok) ==
    /\ pc[p] = "lease"
    /\ LET r == run[p]
           df == ingest_lease_rate_snapshot(r.wb, r.as_of_month,
                                            r.file_md5, nruns)
       IN /\ faults' = IF df.ok /\ ~write_ok THEN faults + 1 ELSE faults
          /\ IF df.ok /\ write_ok
             THEN /\ store' = save_bronze_partition(store, df.rows,
                                                    "lease_rate", r.as_of_month)
                  /\ log' = log_ingestion(log, r.file_md5, r.as_of_month,
                                          r.total_rows + Len(df.rows),
                                          r.started_at, nruns, "success")
                  /\ run' = [run EXCEPT ![p].total_rows = @ + Len(df.rows),
                                        ![p].outcome = "success"]
             ELSE /\ store' = IF df.ok
                              THEN MkDir(store, <<"lease_rate", r.as_of_month>>)
                              ELSE store
                  /\ log' = log_ingestion(log, r.file_md5, r.as_of_month,
                                          r.total_rows, r.started_at, nruns,
                                          "failed")
                  /\ run' = [run EXCEPT ![p].outcome = "failed",
                                        ![p].failed_at = "lease"]
    /\ pc' = [pc EXCEPT ![p] = "done"]
    /\ UNCHANGED <<nruns, call>>

\* runs are invoked serially: one process, one run at a time
Serial == {1}

Next ==
    \E p \in Serial :
        \/ \E f \in InputFiles : Start(p, FileNames[f.n], f.w)
        \/ \E now \in ClockMonths : Detect(p, now)
        \/ Check(p)
        \/ \E write_ok \in WriteOutcomes : Dashboard(p, write_ok)
        \/ \E write_ok \in WriteOutcomes : Expenses(p, write_ok)
        \/ \E write_ok \in WriteOutcomes : Lease(p, write_ok)

Spec == Init /\ [][Next]_vars

(***************************************************************************)
(* Two processes run main at the same time on the shared bronze directory   *)
(* and the shared audit log.  A step of a process is one of the steps of    *)
(* main above: the guard reads the partition in one step, and each table is *)
(* extracted and written in a later step.                                   *)
(***************************************************************************)
\* the files the two processes are started on: the regular workbook, and the
\* workbook of another fingerprint for the same period
RaceFiles == { [n |-> 1, w |-> 1], [n |-> 1, w |-> 4] }

\* the number of runs the two processes start between them
MaxRaceRuns == 2

NextConcurrent ==
    \E p \in Procs :
        \/ \E f \in RaceFiles : nruns < MaxRaceRuns /\ Start(p, FileNames[f.n], f.w)
        \/ \E now \in ClockMonths : Detect(p, now)
        \/ Check(p)
        \/ \E write_ok \in WriteOutcomes : Dashboard(p, write_ok)
        \/ \E write_ok \in WriteOutcomes : Expenses(p, write_ok)
        \/ \E write_ok \in WriteOutcomes : Lease(p, write_ok)

SpecConcurrent == Init /\ [][NextConcurrent]_vars

(***************************************************************************)
(* The extractors, the classifiers and the sheet locator called on their    *)
(* own, on inputs drawn from the sets below.                                *)
(***************************************************************************)
MaxLen == 3
MaxSheets == 3

\* all texts over the characters chars, up to length n
RECURSIVE TextsUpTo(_, _)
TextsUpTo(chars, n) ==
    IF n = 0 THEN {<<>>}
    ELSE TextsUpTo(chars, n - 1)
         \cup {Append(t, c) : t \in {u \in TextsUpTo(chars, n - 1) : Len(u) = n - 1},
                              c \in chars}

\* the cells of sequence cells laid in row r from column c on
RowCells(r, c, cells) ==
    [rc \in {<<r, c + i - 1>> : i \in 1..Len(cells)} |-> cells[rc[2] - c + 1]]

\* the worksheet without its blank cells
Sparse(ws) == [rc \in {q \in DOMAIN ws : ws[q] # Blank} |-> ws[rc]]

\* header rows of a dashboard sheet, from column I on
HeaderRows == {
    << Txt(<<"J","a","n","u","a","r","y">>), Txt(<<"F","e","b","r","u","a","r","y">>) >>,
    << Txt(<<"J","A","N","U","A","R","Y">>), Txt(<<"T","o","t","a","l">>), Txt(<<" ","m","a","r","c","h"," ">>) >>,
    << Txt(<<"J","a","n","u","a","r","y">>), Blank, Txt(<<"M","a","r","c","h">>) >>,
    << Txt(<<"T","a","r","g","e","t">>), Txt(<<"J","a","n","u","a","r","y">>) >>,
    << Blank, Txt(<<"J","a","n","u","a","r","y">>) >>,
    << Txt(<<"T","o","t","a","l">>) >>,
    << >> }

\* what row 29 holds left of column I: nothing, the target label in column H,
\* another label in column A
PreLabels == {"none", "target", "label"}

\* the cell whose content is replaced, and the contents it may get
ProbeCells == { <<30, 9>>, <<32, 10>>, <<42, 9>>, <<53, 10>> }
ProbeValues == { Num(7), Blank, Txt(<<"n","/","a">>), Txt(<<>>), Txt(<<"1","2">>), Date(2025, 1) }

\* contents that float() rejects
Unreadable == { Txt(<<"n","/","a">>), Txt(<<>>), Date(2025, 1) }

DashInputs ==
    [pre : PreLabels, header : HeaderRows, at : ProbeCells,
     value : ProbeValues, year : Years]

\* the dashboard sheet of an input: header rows 29 and 40, rent base and
\* collected of three months, two expense rows with their labels
BaseSheet(in) ==
    RowCells(29, 9, in.header) @@ RowCells(40, 9, in.header) @@
    RowCells(30, 9, <<Num(1000), Num(1100), Num(1200)>>) @@
    RowCells(32, 9, <<Num(900), Num(1000), Num(1100)>>) @@
    RowCells(42, 9, <<Num(5), Num(6)>>) @@ RowCells(53, 9, <<Num(8), Num(9)>>) @@
    (<<53, 5>> :> Txt(<<" ","R","e","p","a","i","r","s"," ","a","n","d"," ","u","p","k","e","e","p"," ">>)) @@
    (IF in.pre = "target" THEN (<<29, 8>> :> Txt(<<"C","o","l","l","e","c","t","i","o","n"," ","T","a","r","g","e","t">>))
     ELSE IF in.pre = "label" THEN (<<29, 1>> :> Txt(<<"M","e","t","r","i","c">>))
     ELSE <<>>)

DashSheet(in) == Sparse((in.at :> in.value) @@ BaseSheet(in))

\* a workbook made of the one sheet ws under the name name
OneSheet(name, ws) ==
    [bytes |-> 0, valid |-> TRUE, sheetnames |-> <<name>>, sheets |-> <<ws>>]

\* the cells of the first data row of a lease sheet
SuiteCells == { Blank, Txt(<<"1","0","1","A">>), Txt(<<"1","0","1","B">>), Txt(<<"2","0","5","b">>), Txt(<<"9","9","9">>),
                Txt(<<" "," ">>), Num(7) }
TenantCells == { Blank, Txt(<<"V","A","C","A","N","T","E">>), Txt(<<" ","V","a","c","a","n","t","e"," ">>), Txt(<<"A","c","m","e">>),
                 Txt(<<"B","l","a","c","k"," ","L","a","b","e","l">>), Txt(<<"A","v","a","i","l","a","b","l","e"," ","s","o","o","n">>), Num(0) }
SqFtCells == { Blank, Num(0), Num(4), Num(0 - 4), Txt(<<"n","/","a">>) }
AnnualCells == { Blank, Num(12), Num(0 - 12), Num(10) }

LeaseInputs ==
    [suite_col : BOOLEAN, second : BOOLEAN, suite : SuiteCells,
     tenant : TenantCells, sqft : SqFtCells, annual : AnnualCells]

\* the lease sheet of an input: header in row 4, the drawn row in row 5, a
\* blank row, and (second) a regular row in row 7
LeaseSheet(in) ==
    Sparse(
        RowCells(4, 1, <<(IF in.suite_col THEN Txt(colSuite) ELSE Txt(<<"U","n","i","t">>)),
                         Txt(colTenant), Txt(colSqFt), Txt(colAnnual)>>) @@
        RowCells(5, 1, <<in.suite, in.tenant, in.sqft, in.annual>>) @@
        (IF in.second
         THEN RowCells(7, 1, <<Txt(<<"2","0","5","B">>), Txt(<<"G","l","o","b","e","x">>), Num(3), Num(10)>>)
         ELSE <<>>))

\* values handed to extract_building: null, a number, texts
BuildingChars == {"1", "a", "A", "b", "B", "x"}
SuiteIds ==
    {Blank, Num(205)}
    \cup {Txt(t) : t \in TextsUpTo(BuildingChars, MaxLen)}
    \cup {Txt(<<"1","0","1","A">>), Txt(<<"2","0","5","B">>), Txt(<<"9","9","9">>), Txt(<<"S","U","I","T","E","_","1">>)}

\* values handed to is_vacant: null, the empty text, texts around a phrase
TenantValues ==
    {Blank, Txt(<<>>)}
    \cup {Txt(pre \o core \o post) :
            pre \in {<<>>, <<" ">>, <<"x">>},
            core \in {<<"V","A","C","A","N","T","E">>, <<"V","a","c","a","n","t">>, <<"d","i","s","p","o","n","i","b","l","e">>, <<"A","V","A","I","L","A","B","L","E">>,
                      <<"A","c","m","e">>, <<"v","a","c","a","n">>, <<" "," ">>},
            post \in {<<>>, <<" ">>, <<"s">>}}

\* the two texts handed to is_own_use
OwnUseTenants == { <<>>, <<"n","a","n">>, <<"V","A","C","A","N","T","E">>, <<"B","l","a","c","k"," ","L","a","b","e","l">>, <<"b","l","a","c","k">>,
                   <<"O","W","N","E","R"," ","U","S","E">>, <<"U","s","o"," ","P","r","o","p","i","o"," ","S","A">>, <<"A","c","m","e">>, <<"1","0">> }
OwnUseSuites == { <<>>, <<"1","0","1","B">>, <<"1","0","1","b">>, <<" ","1","0","1","B"," ">>, <<"1","0","1","A">>, <<"2","0","5","B">>,
                  <<"l","a","b","e","l">>, <<"1","B">> }

\* sheet names of a workbook: up to MaxSheets distinct names, in any order
SheetNames == { <<"D","a","s","h","b","o","a","r","d"," ","2","0","2","5">>, <<"L","e","a","s","e"," ","R","a","t","e">>, <<"2","0","2","5"," ","S","u","m","m","a","r","y">>,
                <<"R","A","T","E","S">>, <<"N","o","t","e","s">>, <<"d","a","s","h">> }

RECURSIVE NameLists(_)
NameLists(n) ==
    IF n = 0 THEN {<<>>}
    ELSE NameLists(n - 1)
         \cup {Append(l, s) : l \in {k \in NameLists(n - 1) : Len(k) = n - 1},
                              s \in SheetNames}

Distinct(l) == \A i, j \in 1..Len(l) : i # j => l[i] # l[j]

SheetLists == {l \in NameLists(MaxSheets) : Distinct(l)}

PatternLists == { DASHBOARD_SHEET_PATTERNS, LEASE_RATE_SHEET_PATTERNS,
                  << <<"R","A","T","E">>, <<"l","e","a","s","e">> >>, << <<"g","a","s","t","o","s">> >>, << >> }

\* cell values handed to pd.to_datetime, each with the month it reads (NaT when
\* it reads none)
DateCells == { [cell |-> Date(2024, 3), month |-> <<2024, 3>>],
               [cell |-> Txt(<<"2","0","2","4","-","0","4","-","1","5">>), month |-> <<2024, 4>>],
               [cell |-> Txt(<<"n","/","a">>), month |-> NaT],
               [cell |-> Txt(<<"t","b","d">>), month |-> NaT],
               [cell |-> Num(5), month |-> <<1970, 1>>] }

NoDate == [cell |-> Blank, month |-> NaT]

\* the first sheet has a column headed "Month" in row 29 or not (col), and
\* the cells that stand below the header
MonthColumns ==
    {[col |-> FALSE, cells |-> <<[cell |-> Date(2024, 3), month |-> <<2024, 3>>]>>],
     [col |-> TRUE, cells |-> <<>>]}
    \cup {[col |-> TRUE, cells |-> <<d>>] : d \in DateCells}
    \cup {[col |-> TRUE, cells |-> <<NoDate, d>>] :
             d \in {c \in DateCells : c.cell.k = "str"}}
    \cup {[col |-> TRUE,
           cells |-> <<[cell |-> Txt(t), month |-> NaT],
                       [cell |-> Date(2024, 3), month |-> <<2024, 3>>]>>] :
             t \in {<<"n","/","a">>, <<"t","b","d">>}}

\* a cell "Reporting Period:" in row row of sheet on, with the two cells to
\* its right; on = 0: no such cell
PeriodCells ==
    {[on |-> 0, row |-> 2, right1 |-> NoDate, right2 |-> NoDate]}
    \cup [on : {1, 2}, row : {2, 51},
          right1 : {NoDate, [cell |-> Date(2024, 5), month |-> <<2024, 5>>],
                    [cell |-> Txt(<<"n","/","a">>), month |-> NaT]},
          right2 : {NoDate, [cell |-> Date(2024, 6), month |-> <<2024, 6>>]}]

\* file names, each with the month re.search finds in its stem
DetectNames == { [name |-> <<"t","c","o",".","x","l","s","x">>, month |-> NaT],
                 [name |-> <<"t","c","o","_","2","0","2","5","-","0","2",".","x","l","s","x">>, month |-> <<2025, 2>>],
                 [name |-> <<"a","1","9","9","9","-","0","5",".","2","0","2","3","_","0","7","b",".","x","l","s","x">>, month |-> <<2023, 7>>],
                 [name |-> <<"t","c","o"," ","2","0","2","5","_","1","3",".","x","l","s","x">>, month |-> <<2025, 13>>],
                 [name |-> <<"2","0","2","5","-","0","0","-","3","1",".","x","l","s","x">>, month |-> <<2025, 0>>] }

DetectInputs ==
    [dash : BOOLEAN, months : MonthColumns, period : PeriodCells,
     file : DetectNames, now : ClockMonths]

\* the workbook of an input: two sheets, the first one named as a dashboard
\* when in.dash
DetectSheet(in, i) ==
    Sparse(
        (IF i = 1
         THEN RowCells(29, 1, <<Txt(<<"M","e","t","r","i","c">>),
                                (IF in.months.col THEN Txt(<<"M","o","n","t","h">>)
                                 ELSE Txt(<<"J","a","n","u","a","r","y">>))>>) @@
              [rc \in {<<29 + k, 2>> : k \in 1..Len(in.months.cells)} |->
                  in.months.cells[rc[1] - 29].cell]
         ELSE <<>>) @@
        (IF in.period.on = i
         THEN RowCells(in.period.row, 4, <<Txt(<<"R","e","p","o","r","t","i","n","g"," ","P","e","r","i","o","d",":">>),
                                           in.period.right1.cell,
                                           in.period.right2.cell>>)
         ELSE <<>>) @@
        (<<3, 1>> :> Txt(<<"C","o","n","t","a","i","n","e","r"," ","O","f","f","i","c","e","s">>)))

DetectBook(in) ==
    [bytes |-> 0, valid |-> TRUE,
     sheetnames |-> <<(IF in.dash THEN nameDashboard ELSE <<"S","u","m","m","a","r","y">>), <<"N","o","t","e","s">>>>,
     sheets |-> <<DetectSheet(in, 1), DetectSheet(in, 2)>>]

\* an empty lease frame: df.apply(axis=1) yields a frame, not a column, and
\* the assignment of rent_psf_yr raises or not with the pandas installed
EmptyFrameRaises(df) == IF df.ok /\ df.rows = <<>> THEN BOOLEAN ELSE {FALSE}

Raised == [ok |-> FALSE, rows |-> <<>>]

\* one call of _extract_dashboard_structured
CallDashboard(in) ==
    /\ call = NoCall
    /\ call' = [fn |-> "dashboard", in |-> in,
                res |-> extract_dashboard_structured(DashSheet(in), <<in.year, 1>>)]
    /\ UNCHANGED <<store, log, pc, run, nruns, faults>>

\* one call of ingest_expenses_monthly
CallExpenses(in) ==
    /\ call = NoCall
    /\ call' = [fn |-> "expenses", in |-> in,
                res |-> expenses_frame(OneSheet(nameDashboard, DashSheet(in)),
                                       <<in.year, 1>>)]
    /\ UNCHANGED <<store, log, pc, run, nruns, faults>>

\* one call of ingest_lease_rate_snapshot
CallLease(in, raises) ==
    /\ call = NoCall
    /\ call' = [fn |-> "lease", in |-> in,
                res |-> IF raises THEN Raised
                        ELSE lease_frame(OneSheet(nameLease, LeaseSheet(in)))]
    /\ UNCHANGED <<store, log, pc, run, nruns, faults>>

\* one call of extract_building
CallExtractBuilding(suite_id) ==
    /\ call = NoCall
    /\ call' = [fn |-> "extract_building", in |-> suite_id,
                res |-> extract_building(suite_id)]
    /\ UNCHANGED <<store, log, pc, run, nruns, faults>>

\* one call of is_vacant
CallIsVacant(tenant_name) ==
    /\ call = NoCall
    /\ call' = [fn |-> "is_vacant", in |-> tenant_name,
                res |-> is_vacant(tenant_name, VACANCY_PATTERNS)]
    /\ UNCHANGED <<store, log, pc, run, nruns, faults>>

\* one call of is_own_use
CallIsOwnUse(tenant_name, suite_id) ==
    /\ call = NoCall
    /\ call' = [fn |-> "is_own_use",
                in |-> [tenant_name |-> tenant_name, suite_id |-> suite_id],
                res |-> is_own_use(tenant_name, suite_id, OWN_USE_PATTERNS)]
    /\ UNCHANGED <<store, log, pc, run, nruns, faults>>

\* one call of pick_sheet
CallPickSheet(sheetnames, patterns) ==
    /\ call = NoCall
    /\ call' = [fn |-> "pick_sheet",
                in |-> [sheetnames |-> sheetnames, patterns |-> patterns],
                res |-> pick_sheet(sheetnames, patterns)]
    /\ UNCHANGED <<store, log, pc, run, nruns, faults>>

\* one call of detect_as_of_month, the dashboard sheet located as main does
CallDetect(in) ==
    /\ call = NoCall
    /\ call' = [fn |-> "detect_as_of_month", in |-> in,
                res |-> detect_as_of_month(
                            in.file.name, DetectBook(in),
                            pick_sheet(DetectBook(in).sheetnames,
                                       DASHBOARD_SHEET_PATTERNS),
                            in.now)]
    /\ UNCHANGED <<store, log, pc, run, nruns, faults>>

\* the call returns
Return ==
    /\ call # NoCall
    /\ call' = NoCall
    /\ UNCHANGED <<store, log, pc, run, nruns, faults>>

NextCalls ==
    \/ \E in \in DashInputs : CallDashboard(in)
    \/ \E in \in DashInputs : CallExpenses(in)
    \/ \E in \in LeaseInputs :
          \E raises \in EmptyFrameRaises(lease_frame(OneSheet(nameLease, LeaseSheet(in)))) :
              CallLease(in, raises)
    \/ \E suite_id \in SuiteIds : CallExtractBuilding(suite_id)
    \/ \E tenant_name \in TenantValues : CallIsVacant(tenant_name)
    \/ \E tenant_name \in OwnUseTenants, suite_id \in OwnUseSuites :
          CallIsOwnUse(tenant_name, suite_id)
    \/ \E sheetnames \in SheetLists, patterns \in PatternLists :
          CallPickSheet(sheetnames, patterns)
    \/ \E in \in DetectInputs : CallDetect(in)
    \/ Return

SpecCalls == Init /\ [][NextCalls]_vars

(***************************************************************************)
(* Quality validation (etl/quality.py) and the pipeline (main.py).          *)
(*                                                                         *)
(* store is the bronze directory: next to the partition directories         *)
(* <<table, as_of_month>> it holds the quarantine directories               *)
(* <<"_errors", table, as_of_month>>.  A column of a schema is its name,    *)
(* the kind of its values, whether nulls are allowed, and its check.        *)
(***************************************************************************)
schema_dashboard_monthly == <<
    [column |-> "as_of_month", kind |-> "audit", nullable |-> FALSE, check |-> "none"],
    [column |-> "month", kind |-> "month", nullable |-> FALSE, check |-> "none"],
    [column |-> "rent_base", kind |-> "float", nullable |-> TRUE, check |-> "ge(0)"],
    [column |-> "collected", kind |-> "float", nullable |-> TRUE, check |-> "ge(0)"],
    [column |-> "uncollected", kind |-> "float", nullable |-> TRUE, check |-> "none"],
    [column |-> "leased_sqft", kind |-> "float", nullable |-> TRUE, check |-> "ge(0)"],
    [column |-> "price_per_sf_yr", kind |-> "float", nullable |-> TRUE, check |-> "ge(0)"],
    [column |-> "_file_md5", kind |-> "audit", nullable |-> FALSE, check |-> "none"],
    [column |-> "_ingested_at", kind |-> "audit", nullable |-> FALSE, check |-> "none"] >>

schema_expenses_monthly == <<
    [column |-> "as_of_month", kind |-> "audit", nullable |-> FALSE, check |-> "none"],
    [column |-> "month", kind |-> "month", nullable |-> FALSE, check |-> "none"],
    [column |-> "item", kind |-> "text", nullable |-> FALSE, check |-> "none"],
    [column |-> "actual", kind |-> "float", nullable |-> TRUE, check |-> "ge(0)"],
    [column |-> "expense_category", kind |-> "name", nullable |-> FALSE,
     check |-> "isin(fixed, variable, other)"],
    [column |-> "_file_md5", kind |-> "audit", nullable |-> FALSE, check |-> "none"],
    [column |-> "_ingested_at", kind |-> "audit", nullable |-> FALSE, check |-> "none"] >>

schema_lease_rate == <<
    [column |-> "as_of_month", kind |-> "audit", nullable |-> FALSE, check |-> "none"],
    [column |-> "suite_id", kind |-> "text", nullable |-> FALSE, check |-> "none"],
    [column |-> "building", kind |-> "name", nullable |-> TRUE, check |-> "isin(A, B)"],
    [column |-> "tenant", kind |-> "cell", nullable |-> FALSE, check |-> "none"],
    [column |-> "sqft", kind |-> "float", nullable |-> TRUE, check |-> "ge(0)"],
    [column |-> "rent_monthly", kind |-> "float", nullable |-> TRUE, check |-> "ge(0)"],
    [column |-> "rent_annual", kind |-> "float", nullable |-> TRUE, check |-> "ge(0)"],
    [column |-> "rent_psf_yr", kind |-> "float", nullable |-> TRUE, check |-> "ge(0)"],
    [column |-> "is_vacant", kind |-> "bool", nullable |-> FALSE, check |-> "none"],
    [column |-> "is_own_use", kind |-> "bool", nullable |-> FALSE, check |-> "none"],
    [column |-> "_file_md5", kind |-> "audit", nullable |-> FALSE, check |-> "none"],
    [column |-> "_ingested_at", kind |-> "audit", nullable |-> FALSE, check |-> "none"] >>

\* the value of a column in a stored record
ColumnValue(rec, column) ==
    IF column = "as_of_month" THEN rec.as_of_month
    ELSE IF column = "_file_md5" THEN rec.file_md5
    ELSE IF column = "_ingested_at" THEN rec.ingested_at
    ELSE rec.data[column]

\* the value is null (None, NaN or NaT in the frame)
IsNullValue(kind, v) ==
    IF kind = "float" THEN v.k = "null"
    ELSE IF kind = "month" THEN v = NaT
    ELSE IF kind = "cell" THEN v.k = "blank"
    ELSE IF kind = "name" THEN v = "null"
    ELSE FALSE

\* the value fails the check of the column
FailsCheck(check, v) ==
    IF check = "ge(0)" THEN v.n < 0
    ELSE IF check = "isin(A, B)" THEN v \notin {"A", "B"}
    ELSE IF check = "isin(fixed, variable, other)"
         THEN v \notin {"fixed", "variable", "other"}
    ELSE FALSE

\* the failure cases of one record against one column
ColumnViolations(rec, i, col) ==
    LET v == ColumnValue(rec, col.column)
    IN IF IsNullValue(col.kind, v)
       THEN (IF col.nullable THEN {}
             ELSE {[index |-> i, column |-> col.column, check |-> "not_nullable"]})
       ELSE (IF FailsCheck(col.check, v)
             THEN {[index |-> i, column |-> col.column, check |-> col.check]}
             ELSE {})

\* validation that stops at the first failure case
Violations_First(rows, schema) ==
    LET all == UNION {ColumnViolations(rows[i], i, schema[k]) :
                        i \in 1..Len(rows), k \in 1..Len(schema)}
    IN IF all = {} THEN {} ELSE {CHOOSE v \in all : TRUE}

\* schema.validate(df, lazy=True): every failure case of the frame
Violations(rows, schema) ==
    UNION {ColumnViolations(rows[i], i, schema[k]) :
             i \in 1..Len(rows), k \in 1..Len(schema)}

\* the offending rows listed in failure_cases
FailureCases(errors) == {[index |-> e.index, column |-> e.column] : e \in errors}

\* log_validation_errors that moves the offending partition into quarantine
log_validation_errors_Move(st, table_name, partition, errors, timestamp) ==
    LET error_dir == <<"_errors", table_name, partition>>
        moved == {key \in DOMAIN st : Len(key) = 2 /\ key[2] = partition}
    IN [key \in (DOMAIN st \cup {error_dir}) \ moved |->
           IF key = error_dir
           THEN <<[name |-> <<"errors", timestamp>>, rows |-> errors]>>
           ELSE st[key]]

\* log_validation_errors: the report and the sample of offending rows are
\* written under _errors/<table>/<partition>, named after the clock
log_validation_errors(st, table_name, partition, errors, timestamp) ==
    LET error_dir == <<"_errors", table_name, partition>>
        error_file == <<"errors", timestamp>>
        sample_file == <<"sample_failures", timestamp>>
    IN [MkDir(st, error_dir) EXCEPT ![error_dir] =
           WriteFile(WriteFile(@, error_file, errors),
                     sample_file, FailureCases(errors))]

\* the loop of validate_partition over the parquet files of the partition
RECURSIVE ValidateFiles(_, _, _, _, _, _, _, _, _)
ValidateFiles(st, table_name, partition, parquet_files, i, schema, hard_fail, timestamp, all_valid) ==
    IF i > Len(parquet_files)
    THEN [store |-> st, valid |-> all_valid, raised |-> FALSE]
    ELSE LET errors == Violations(parquet_files[i].rows, schema)
             logged == log_validation_errors(st, table_name, partition,
                                             errors, timestamp)
         IN IF errors = {}
            THEN ValidateFiles(st, table_name, partition, parquet_files, i + 1,
                               schema, hard_fail, timestamp, all_valid)
            ELSE IF hard_fail
                 THEN [store |-> logged, valid |-> FALSE, raised |-> TRUE]
                 ELSE ValidateFiles(logged, table_name, partition, parquet_files,
                                    i + 1, schema, hard_fail, timestamp, FALSE)

\* validate_partition; raised: the SchemaErrors is raised again (hard_fail)
validate_partition(st, table_name, partition, schema, hard_fail, timestamp) ==
    LET parquet_files == Files(st, <<table_name, partition>>)
    IN IF parquet_files = <<>>
       THEN [store |-> st, valid |-> TRUE, raised |-> FALSE]
       ELSE ValidateFiles(st, table_name, partition, parquet_files, 1, schema,
                          hard_fail, timestamp, TRUE)

\* the order of the directory names as_of_month=YYYY-MM
NameBefore(a, b) == a[1] < b[1] \/ (a[1] = b[1] /\ a[2] < b[2])

\* sorted(...): the partitions of a set in the order of their names
RECURSIVE Sorted(_)
Sorted(S) ==
    IF S = {} THEN <<>>
    ELSE LET least == CHOOSE a \in S : \A b \in S \ {a} : NameBefore(a, b)
         IN <<least>> \o Sorted(S \ {least})

\* the partition directories of a table
PartitionsOf(st, table_name) ==
    {key[2] : key \in {k \in DOMAIN st : Len(k) = 2 /\ k[1] = table_name}}

\* the loop of validate_bronze_table over the sorted partitions; visited
\* lists the partitions handed to validate_partition
RECURSIVE ValidatePartitions(_, _, _, _, _, _, _, _)
ValidatePartitions(st, table_name, partitions, i, schema, hard_fail, timestamp, acc) ==
    IF i > Len(partitions)
    THEN [store |-> st, outcome |-> IF acc.all_valid THEN "true" ELSE "false",
          visited |-> acc.visited]
    ELSE LET r == validate_partition(st, table_name, partitions[i], schema,
                                     hard_fail, timestamp)
             visited == Append(acc.visited, partitions[i])
         IN IF r.raised /\ hard_fail
            THEN [store |-> r.store, outcome |-> "raised", visited |-> visited]
            ELSE ValidatePartitions(r.store, table_name, partitions, i + 1,
                                    schema, hard_fail, timestamp,
                                    [all_valid |-> acc.all_valid /\ r.valid
                                                   /\ ~r.raised,
                                     visited |-> visited])

\* validate_bronze_table
validate_bronze_table(st, table_name, schema, hard_fail, timestamp) ==
    ValidatePartitions(st, table_name, Sorted(PartitionsOf(st, table_name)), 1,
                       schema, hard_fail, timestamp,
                       [all_valid |-> TRUE, visited |-> <<>>])

\* validations of quality.main
validations == << [table_name |-> "dashboard", schema |-> schema_dashboard_monthly],
                  [table_name |-> "expenses", schema |-> schema_expenses_monthly],
                  [table_name |-> "lease_rate", schema |-> schema_lease_rate] >>

SchemaOf(table_name) ==
    LET k == CHOOSE i \in 1..Len(validations) :
                 validations[i].table_name = table_name
    IN validations[k].schema

\* main of etl/quality.py: every table in hard-fail mode, an exception of one
\* table does not stop the others; visited lists <<table, partition>>
RECURSIVE quality_main(_, _, _, _)
quality_main(st, k, timestamp, acc) ==
    IF k > Len(validations)
    THEN [store |-> st, all_passed |-> acc.all_passed, visited |-> acc.visited]
    ELSE LET r == validate_bronze_table(st, validations[k].table_name,
                                        validations[k].schema, TRUE, timestamp)
         IN quality_main(r.store, k + 1, timestamp,
                [all_passed |-> acc.all_passed /\ r.outcome = "true",
                 visited |-> acc.visited \o
                     [j \in 1..Len(r.visited) |->
                         <<validations[k].table_name, r.visited[j]>>]])

\* no run of main is under way
Quiet == \A p \in Procs : pc[p] \in {"idle", "done"}

\* one call of validate_bronze_table on the bronze directory as it stands
CallValidateBronzeTable(table_name, hard_fail) ==
    /\ call = NoCall
    /\ Quiet
    /\ LET r == validate_bronze_table(store, table_name, SchemaOf(table_name),
                                      hard_fail, nruns)
       IN /\ store' = r.store
          /\ call' = [fn |-> "validate_bronze_table",
                      in |-> [table_name |-> table_name, hard_fail |-> hard_fail,
                              store |-> store],
                      res |-> [outcome |-> r.outcome, visited |-> r.visited]]
    /\ UNCHANGED <<log, pc, run, nruns, faults>>

\* run_quality of main.py (lines 117-122): it follows run_ingest whenever
\* run_ingest returned, that is after a run that ended with success or skipped
run_quality(p) ==
    /\ call = NoCall
    /\ Quiet
    /\ pc[p] = "done"
    /\ run[p].outcome \in {"success", "skipped"}
    /\ LET r == quality_main(store, 1, nruns,
                             [all_passed |-> TRUE, visited |-> <<>>])
       IN /\ store' = r.store
          /\ call' = [fn |-> "run_quality",
                      in |-> [p |-> p, store |-> store],
                      res |-> [all_passed |-> r.all_passed,
                               visited |-> r.visited]]
    /\ UNCHANGED <<log, pc, run, nruns, faults>>

\* the files the pipeline is run on: the regular workbook (period 2025-01),
\* and the workbook with negative amounts, whose period is the month the
\* clock shows
PipelineFiles == { [n |-> 1, w |-> 1], [n |-> 1, w |-> 3] }

\* the number of runs of the pipeline
MaxPipelineRuns == 2

\* a run starts when no validation is under way; a validation starts when no
\* run is under way
NextPipeline ==
    \/ \E p \in Serial :
          \/ \E f \in PipelineFiles :
                /\ nruns < MaxPipelineRuns
                /\ call = NoCall
                /\ Start(p, FileNames[f.n], f.w)
          \/ \E now \in ClockMonths : Detect(p, now)
          \/ Check(p)
          \/ \E write_ok \in WriteOutcomes : Dashboard(p, write_ok)
          \/ \E write_ok \in WriteOutcomes : Expenses(p, write_ok)
          \/ \E write_ok \in WriteOutcomes : Lease(p, write_ok)
    \/ \E p \in Serial : run_quality(p)
    \/ \E table_name \in Tables, hard_fail \in BOOLEAN :
          CallValidateBronzeTable(table_name, hard_fail)
    \/ Return

SpecPipeline == Init /\ [][NextPipeline]_vars

(***************************************************************************)
(* Properties.                                                              *)
(***************************************************************************)
Done(p) == pc[p] = "done"

\* the fingerprints carried by the records of a partition
Fingerprints(st, key) ==
    UNION {Md5sOf(Files(st, key)[i]) : i \in 1..Len(Files(st, key))}

\* all records of a partition
Records(st, key) ==
    UNION {{Files(st, key)[i].rows[j] : j \in 1..Len(Files(st, key)[i].rows)} :
             i \in 1..Len(Files(st, key))}

\* the audit entry a run appends when it ends with the given status
Entry(r, rows, status) ==
    [file_md5 |-> r.file_md5, as_of_month |-> r.as_of_month,
     rows_ingested |-> rows, started_at |-> r.started_at,
     finished_at |-> r.started_at, status |-> status]

\* the run has passed the idempotency guard, one way or the other
PastCheck(p) == pc[p] \notin {"idle", "detect", "check"}

\* the run before this one ended with success on the same bytes and period
PrevSuccessSame(r) ==
    /\ r.prev.outcome = "success"
    /\ r.prev.file_md5 = r.file_md5
    /\ r.prev.as_of_month = r.as_of_month

\* C1: a run that immediately follows a successful run on the byte-identical
\* file for the same period changes no partition record and appends one
\* audit entry with status skipped.
C1_Idempotent ==
    \A p \in Procs :
        (PastCheck(p) /\ PrevSuccessSame(run[p])) =>
            /\ Done(p)
            /\ run[p].outcome = "skipped"
            /\ store = run[p].store0
            /\ log = Append(run[p].log0, Entry(run[p], 0, "skipped"))

\* C2: when a run succeeds on a period that held records of another
\* fingerprint, the partition of every table still holds the records of
\* that fingerprint, next to those of the new one.
C2_NoOverwrite ==
    \A p \in Procs :
        (Done(p) /\ run[p].outcome = "success") =>
            \A t \in Tables :
                LET key == <<t, run[p].as_of_month>>
                IN /\ Records(run[p].store0, key) \subseteq Records(store, key)
                   /\ t # "expenses" => run[p].file_md5 \in Fingerprints(store, key)

\* C3: once a run for a (fingerprint, period) has ended with success, every
\* later run on that fingerprint and period is skipped.
C3_AtMostOnce ==
    \A p \in Procs :
        (/\ PastCheck(p)
         /\ \E i \in 1..Len(run[p].log0) :
                /\ run[p].log0[i].status = "success"
                /\ run[p].log0[i].file_md5 = run[p].file_md5
                /\ run[p].log0[i].as_of_month = run[p].as_of_month)
        => (Done(p) /\ run[p].outcome = "skipped")

\* C4: when the guard reports the (fingerprint, period) as ingested, the run
\* extracts and writes nothing: the partitions of the three tables are as the
\* run found them and its only effect is one audit entry, skipped, 0 rows.
C4_SkipFrame ==
    \A p \in Procs :
        (/\ PastCheck(p)
         /\ check_already_ingested(run[p].store0, run[p].file_md5,
                                   run[p].as_of_month, "dashboard"))
        => /\ Done(p)
           /\ run[p].outcome = "skipped"
           /\ run[p].total_rows = 0
           /\ run[p].expenses = "none"
           /\ store = run[p].store0
           /\ log = Append(run[p].log0, Entry(run[p], 0, "skipped"))

C4_Witness ==
    \E p \in Procs :
        /\ Done(p)
        /\ run[p].outcome = "skipped"
        /\ Records(store, <<"dashboard", run[p].as_of_month>>) # {}
        /\ Len(log) >= 2

\* C5: a byte-identical copy under another file name, ingested after a
\* successful run, is skipped; a file whose bytes were never ingested is not
\* skipped, also under a name used before.
C5_ContentNotName ==
    \A p \in Procs :
        (PastCheck(p) /\ run[p].outcome # "raised") =>
            /\ (/\ run[p].prev.outcome = "success"
                /\ run[p].prev.file_md5 = run[p].file_md5
                /\ run[p].prev.name # run[p].name)
               => (Done(p) /\ run[p].outcome = "skipped")
            /\ (\A i \in 1..Len(run[p].log0) :
                    run[p].log0[i].file_md5 # run[p].file_md5)
               => run[p].outcome # "skipped"

\* C6: every run that has ended has appended exactly one audit entry, with
\* status success, failed or skipped, after the entries that were there.
C6_OneEntry ==
    \A p \in Procs :
        Done(p) =>
            /\ Len(log) = Len(run[p].log0) + 1
            /\ SubSeq(log, 1, Len(run[p].log0)) = run[p].log0
            /\ log[Len(log)].status \in {"success", "failed", "skipped"}

\* the partition writes of the run that raised
WriteFaults(p) == faults - run[p].faults0

\* C7: a failure of the dashboard or of the lease extractor (no sheet, an
\* extraction error, a failed partition write) ends the run at once with one
\* audit entry, failed, and without a success entry; nothing is extracted or
\* written after the failure.
C7_RequiredAborts ==
    \A p \in Procs :
        LET r == run[p]
            dash == DashboardFrames[r.wb][r.as_of_month[1]]
            lease == LeaseFrames[r.wb]
        IN (Done(p) /\ r.outcome \in {"success", "failed"}) =>
            /\ r.outcome = "success" <=>
                   (dash.ok /\ lease.ok /\ r.failed_at = "none"
                    /\ WriteFaults(p) = IF r.expenses = "write_failed" THEN 1 ELSE 0)
            /\ r.outcome = "failed" =>
                   /\ log = Append(r.log0, Entry(r, r.total_rows, "failed"))
                   /\ r.failed_at \in {"dashboard", "lease"}
                   /\ Records(store, <<"lease_rate", r.as_of_month>>)
                        = Records(r.store0, <<"lease_rate", r.as_of_month>>)
            /\ (r.outcome = "failed" /\ r.failed_at = "dashboard") =>
                   /\ r.expenses = "none"
                   /\ r.total_rows = 0
                   /\ \A t \in Tables :
                          Records(store, <<t, r.as_of_month>>)
                            = Records(r.store0, <<t, r.as_of_month>>)

C7_Witness ==
    \E p \in Procs :
        /\ Done(p)
        /\ run[p].outcome = "failed"
        /\ run[p].failed_at = "lease"
        /\ run[p].total_rows > 0
        /\ ~LeaseFrames[run[p].wb].ok

\* C8: when the expense source yields no data or its partition write fails,
\* the dashboard partition written by the run is kept, no expense record is
\* written, the lease extractor runs, and the run ends with success whenever
\* the lease extractor succeeds and persists.
C8_ExpensesIsolated ==
    \A p \in Procs :
        LET r == run[p]
            dash == ingest_dashboard_monthly(r.wb, r.as_of_month, r.file_md5,
                                             r.started_at)
            lease == ingest_lease_rate_snapshot(r.wb, r.as_of_month, r.file_md5,
                                                r.started_at)
            lease_write_ok ==
                WriteFaults(p) = IF r.expenses = "write_failed" THEN 1 ELSE 0
        IN (Done(p) /\ r.expenses \in {"no_data", "write_failed"}) =>
            /\ \E i \in 1..Len(Files(store, <<"dashboard", r.as_of_month>>)) :
                   Files(store, <<"dashboard", r.as_of_month>>)[i].rows = dash.rows
            /\ Records(store, <<"expenses", r.as_of_month>>)
                 = Records(r.store0, <<"expenses", r.as_of_month>>)
            /\ r.outcome = "success" \/ r.failed_at = "lease"
            /\ (lease.ok /\ lease_write_ok) =>
                   /\ r.outcome = "success"
                   /\ \E i \in 1..Len(Files(store, <<"lease_rate", r.as_of_month>>)) :
                          Files(store, <<"lease_rate", r.as_of_month>>)[i].rows
                            = lease.rows
                   /\ log = Append(r.log0, Entry(r, r.total_rows, "success"))

C8_Witness ==
    \E p \in Procs :
        /\ Done(p)
        /\ run[p].expenses = "write_failed"
        /\ run[p].outcome = "success"
        /\ Records(store, <<"dashboard", run[p].as_of_month>>) # {}

\* C9: within each as_of_month partition of the lease snapshot table the
\* suite_id values of the persisted rows are pairwise distinct.
C9_SuiteIdUnique ==
    \A key \in DOMAIN store :
        key[1] = "lease_rate" =>
            \A i \in 1..Len(store[key]) :
                \A j, k \in 1..Len(store[key][i].rows) :
                    j # k => store[key][i].rows[j].data.suite_id
                               # store[key][i].rows[k].data.suite_id

NonNegative(v) == v.k = "null" \/ v.n >= 0

\* C10: every currency or area field of a persisted dashboard or lease row
\* is null or >= 0 (uncollected excepted).
C10_NonNegative ==
    \A key \in DOMAIN store :
        \A i \in 1..Len(store[key]) :
            \A j \in 1..Len(store[key][i].rows) :
                LET d == store[key][i].rows[j].data
                IN /\ key[1] = "dashboard" =>
                        /\ NonNegative(d.rent_base)
                        /\ NonNegative(d.collected)
                        /\ NonNegative(d.leased_sqft)
                        /\ NonNegative(d.price_per_sf_yr)
                   /\ key[1] = "lease_rate" =>
                        /\ NonNegative(d.sqft)
                        /\ NonNegative(d.rent_monthly)
                        /\ NonNegative(d.rent_annual)
                        /\ NonNegative(d.rent_psf_yr)

\* C11: every persisted record, in each of the three tables, carries a
\* non-null as_of_month, fingerprint and ingestion timestamp; its as_of_month
\* is the key of the partition that holds it, and a record written by the
\* run in progress carries the period and the fingerprint of that run.
C11_AuditColumns ==
    \A key \in DOMAIN store :
        \A i \in 1..Len(store[key]) :
            \A j \in 1..Len(store[key][i].rows) :
                LET rec == store[key][i].rows[j]
                IN /\ rec.as_of_month # NaT
                   /\ rec.file_md5 \in {Workbooks[w].bytes : w \in 1..Len(Workbooks)}
                   /\ rec.ingested_at \in 1..nruns
                   /\ rec.table = key[1]
                   /\ rec.as_of_month = key[2]
                   /\ \A p \in Procs :
                          (pc[p] # "idle" /\ rec.ingested_at = run[p].started_at)
                          => /\ rec.file_md5 = run[p].file_md5
                             /\ rec.as_of_month = run[p].as_of_month

C11_Witness ==
    \E p \in Procs :
        /\ Done(p)
        /\ run[p].outcome = "success"
        /\ \A t \in Tables :
               \E rec \in Records(store, <<t, run[p].as_of_month>>) :
                   rec.ingested_at = run[p].started_at

\* the month named by the label of column c of the header row, 0 if none
MonthLabelAt(ws, c) ==
    IF CellAt(ws, 29, c).k = "str" THEN MonthOf(Strip(CellAt(ws, 29, c).s)) ELSE 0

\* one row per column of the header row whose label names a month, with the
\* metric values found in that column
RECURSIVE RowsOfMonthColumns(_, _, _)
RowsOfMonthColumns(ws, c, year) ==
    IF c > MaxCol(ws) THEN <<>>
    ELSE (IF MonthLabelAt(ws, c) = 0 THEN <<>>
          ELSE << [month           |-> <<year, MonthLabelAt(ws, c)>>,
                   rent_base       |-> Metric(ws, 30, c),
                   collected       |-> Metric(ws, 32, c),
                   uncollected     |-> Metric(ws, 33, c),
                   leased_sqft     |-> Metric(ws, 35, c),
                   price_per_sf_yr |-> Metric(ws, 36, c)] >>)
         \o RowsOfMonthColumns(ws, c + 1, year)

\* C12: the dashboard extractor returns exactly one row per header label that
\* is an English month name (whatever its case), dated that month of the year
\* of the period and holding the metric values of that month's column; other
\* labels give no row.
C12_MonthRows ==
    call.fn = "dashboard" =>
        /\ call.res.ok
        /\ call.res.rows = RowsOfMonthColumns(DashSheet(call.in), 1, call.in.year)

MetricNames == {"rent_base", "collected", "uncollected", "leased_sqft",
                "price_per_sf_yr"}

\* the input with a readable number in the replaced cell
Readable(in) == [in EXCEPT !.value = Num(7)]

\* the fields in which the rows of frame a differ from those of frame b
Differences(a, b) ==
    {kf \in (1..Len(a.rows)) \X MetricNames :
        a.rows[kf[1]][kf[2]] # b.rows[kf[1]][kf[2]]}

RECURSIVE Without(_, _)
Without(rows, actual) ==
    IF rows = <<>> THEN <<>>
    ELSE (IF Head(rows).actual = actual THEN <<>> ELSE <<Head(rows)>>)
         \o Without(Tail(rows), actual)

\* C13: a cell that float() cannot read changes the outcome of an extractor
\* in that cell only.  Against the same sheet with a number in the cell, the
\* dashboard extractor returns the same rows with that one metric absent and
\* does not raise; the expenses extractor returns the same records without
\* the record of that cell.
C13_CellIsolated ==
    /\ (call.fn = "dashboard" /\ call.in.value \in Unreadable) =>
           LET good == extract_dashboard_structured(DashSheet(Readable(call.in)),
                                                    <<call.in.year, 1>>)
           IN /\ call.res.ok = good.ok
              /\ Len(call.res.rows) = Len(good.rows)
              /\ \A k \in 1..Len(good.rows) :
                     call.res.rows[k].month = good.rows[k].month
              /\ Cardinality(Differences(call.res, good)) <= 1
              /\ \A kf \in Differences(call.res, good) :
                     /\ call.res.rows[kf[1]][kf[2]] = Null
                     /\ good.rows[kf[1]][kf[2]] = Val(7)
              /\ \A kf \in (1..Len(good.rows)) \X MetricNames :
                     good.rows[kf[1]][kf[2]] = Val(7)
                         => kf \in Differences(call.res, good)
    /\ (call.fn = "expenses" /\ call.in.value \in Unreadable) =>
           LET good == expenses_frame(OneSheet(nameDashboard,
                                               DashSheet(Readable(call.in))),
                                      <<call.in.year, 1>>)
           IN call.res.rows = Without(good.rows, Val(7))

C13_Witness ==
    /\ call.fn = "dashboard"
    /\ call.in.value \in Unreadable
    /\ call.res.ok
    /\ \E k \in 1..Len(call.res.rows) :
           /\ call.res.rows[k].rent_base = Null
           /\ call.res.rows[k].collected # Null

\* C14: every row the lease extractor emits has a suite_id that is neither
\* null nor blank: without a Suite column every data row gets the placeholder
\* SUITE_<position>, with one the rows whose suite cell is empty are dropped.
C14_SuiteIdPresent ==
    (call.fn = "lease" /\ call.res.ok) =>
        LET ws == LeaseSheet(call.in)
            rows == DataRows(ws, 5)
            col == ColumnOf(ws, colSuite)
            filled == {i \in 1..Len(rows) :
                          LET cell == CleanCell(ws, rows[i], col)
                          IN cell.k # "blank" /\ Strip(StrOf(cell)) # <<>>}
        IN /\ \A k \in 1..Len(call.res.rows) :
                  Strip(call.res.rows[k].suite_id) # <<>>
           /\ col = 0 =>
                  /\ Len(call.res.rows) = Len(rows)
                  /\ \A k \in 1..Len(rows) :
                         call.res.rows[k].suite_id = textSuitePrefix \o NatStr(k)
           /\ col # 0 => Len(call.res.rows) = Cardinality(filled)

C14_Witness ==
    /\ call.fn = "lease"
    /\ call.res.ok
    /\ call.in.suite_col
    /\ call.in.suite \in {Blank, Txt(<<" "," ">>)}
    /\ call.in.second
    /\ Len(DataRows(LeaseSheet(call.in), 5)) = 2
    /\ Len(call.res.rows) = 1

\* the building named by text t: the letter of its first character among
\* A, a, B, b
BuildingOf(t) ==
    IF \E i \in 1..Len(t) :
           t[i] \in {"A", "a"} /\ \A j \in 1..(i - 1) : t[j] \notin {"A", "a", "B", "b"}
    THEN "A"
    ELSE IF \E i \in 1..Len(t) :
                t[i] \in {"B", "b"} /\ \A j \in 1..(i - 1) : t[j] \notin {"A", "a", "B", "b"}
         THEN "B"
         ELSE "null"

\* C15: extract_building gives the first character of the identifier that is
\* A or B, whatever its case, as 'A' or 'B', and null when there is none or
\* the identifier is null; the building of every emitted lease row is that
\* of its suite_id, hence one of A, B, null.
C15_Building ==
    /\ call.fn = "extract_building" =>
           /\ call.res \in {"A", "B", "null"}
           /\ call.in = Blank => call.res = "null"
           /\ call.in.k = "str" => call.res = BuildingOf(call.in.s)
           /\ call.in = Txt(<<"1","0","1","A">>) => call.res = "A"
           /\ call.in = Txt(<<"2","0","5","B">>) => call.res = "B"
           /\ call.in = Txt(<<"9","9","9">>) => call.res = "null"
    /\ call.fn = "lease" =>
           \A k \in 1..Len(call.res.rows) :
               /\ call.res.rows[k].building \in {"A", "B", "null"}
               /\ call.res.rows[k].building = BuildingOf(call.res.rows[k].suite_id)

C15_Witness ==
    /\ call.fn = "extract_building"
    /\ call.in = Txt(<<"1", "b", "A">>)
    /\ call.res = "B"

\* C16: in every row the lease extractor emits, rent_psf_yr is rent_annual
\* divided by sqft when sqft > 0 (absent when rent_annual is absent), and 0
\* when sqft is 0, negative or absent.
C16_RentPerArea ==
    call.fn = "lease" =>
        \A k \in 1..Len(call.res.rows) :
            LET r == call.res.rows[k]
            IN IF r.sqft.k = "val" /\ r.sqft.n > 0
               THEN IF r.rent_annual.k = "null" THEN r.rent_psf_yr = Null
                    ELSE /\ r.rent_psf_yr.k = "val"
                         /\ r.rent_psf_yr.d > 0
                         /\ r.rent_psf_yr.n * r.sqft.n * r.rent_annual.d
                              = r.rent_annual.n * r.sqft.d * r.rent_psf_yr.d
               ELSE r.rent_psf_yr = Val(0)

C16_Witness ==
    /\ call.fn = "lease"
    /\ Len(call.res.rows) = 2
    /\ call.res.rows[1].sqft = Val(4)
    /\ call.res.rows[1].rent_annual = Val(10)
    /\ call.res.rows[1].rent_psf_yr = [k |-> "val", n |-> 5, d |-> 2]

\* the emitted rows whose tenant is VACANTE
VacanteRows ==
    {k \in 1..Len(call.res.rows) : call.res.rows[k].tenant = Txt(<<"V","A","C","A","N","T","E">>)}

\* C17 (as amended): a lease row whose tenant is VACANTE is emitted with
\* is_vacant = true; its is_own_use is true when its suite id contains,
\* whatever the case, an owner-use phrase (the owner suite 101B is one) and
\* false otherwise.
C17_VacanteRow ==
    call.fn = "lease" =>
        \A k \in VacanteRows :
            /\ call.res.rows[k].is_vacant = TRUE
            /\ call.res.rows[k].is_own_use
                 = \E i \in 1..Len(OWN_USE_PATTERNS) :
                       Contains(OWN_USE_PATTERNS[i],
                                LowerStr(call.res.rows[k].suite_id))

C17_Witness ==
    /\ call.fn = "lease"
    /\ \E k \in VacanteRows :
           /\ call.res.rows[k].suite_id = <<"1","0","1","A">>
           /\ call.res.rows[k].is_vacant = TRUE
           /\ call.res.rows[k].is_own_use = FALSE

\* C17 (as stated): a lease row whose tenant is VACANTE is emitted with
\* is_vacant = true and is_own_use = false, whatever its suite id.
C17_AsStated ==
    call.fn = "lease" =>
        \A k \in VacanteRows :
            /\ call.res.rows[k].is_vacant = TRUE
            /\ call.res.rows[k].is_own_use = FALSE

\* C18: is_own_use is true exactly when the text made of the tenant text, a
\* space and the suite id contains, whatever the case, one of the configured
\* owner-use phrases; with suite 101B it is true for every tenant text
\* (empty, null, a vacancy phrase), also in the rows of the lease extractor.
C18_OwnUse ==
    /\ call.fn = "is_own_use" =>
           /\ call.res \in BOOLEAN
           /\ call.res
                = \E i \in 1..Len(OWN_USE_PATTERNS) :
                      Contains(OWN_USE_PATTERNS[i],
                               LowerStr(call.in.tenant_name \o <<" ">>
                                        \o call.in.suite_id))
           /\ call.in.suite_id = <<"1","0","1","B">> => call.res = TRUE
    /\ call.fn = "lease" =>
           \A k \in 1..Len(call.res.rows) :
               call.res.rows[k].suite_id = <<"1","0","1","B">>
                   => call.res.rows[k].is_own_use = TRUE

C18_Witness ==
    /\ call.fn = "is_own_use"
    /\ call.in.tenant_name = <<"V","A","C","A","N","T","E">>
    /\ call.in.suite_id = <<"1","0","1","B">>
    /\ call.res = TRUE

\* C19: for every tenant text, the empty text and null included, is_vacant
\* returns a boolean; it is true exactly when the text is null, is empty or
\* contains, whatever the case, one of the configured vacancy phrases.
C19_Vacant ==
    call.fn = "is_vacant" =>
        /\ call.res \in BOOLEAN
        /\ call.res
             = (\/ call.in = Blank
                \/ call.in.s = <<>>
                \/ \E i \in 1..Len(VACANCY_PATTERNS) :
                       Contains(VACANCY_PATTERNS[i], LowerStr(call.in.s)))

C19_Witness ==
    /\ call.fn = "is_vacant"
    /\ call.in = Txt(<<>>)
    /\ call.res = TRUE

\* the sheets whose name contains pattern pat, whatever the case
Matching(sheetnames, pat) ==
    {i \in 1..Len(sheetnames) : Contains(LowerStr(pat), LowerStr(sheetnames[i]))}

Least(S) == CHOOSE i \in S : \A j \in S : i <= j

\* C20: pick_sheet returns, for the first pattern of the list that some sheet
\* name contains (whatever the case), the first such sheet in workbook order,
\* under its name as the workbook spells it; a sheet that matches a later
\* pattern only is not returned then; it returns None exactly when no
\* pattern matches any sheet name.
C20_PickSheet ==
    call.fn = "pick_sheet" =>
        LET sheetnames == call.in.sheetnames
            patterns == call.in.patterns
            found == {k \in 1..Len(patterns) : Matching(sheetnames, patterns[k]) # {}}
        IN /\ (call.res = NoSheet) = (found = {})
           /\ found # {} =>
                  call.res = sheetnames[Least(Matching(sheetnames,
                                                       patterns[Least(found)]))]

C20_Witness ==
    /\ call.fn = "pick_sheet"
    /\ call.in.sheetnames = << <<"2","0","2","5"," ","S","u","m","m","a","r","y">>, <<"d","a","s","h">>, <<"D","a","s","h","b","o","a","r","d"," ","2","0","2","5">> >>
    /\ call.in.patterns = DASHBOARD_SHEET_PATTERNS
    /\ call.res = <<"D","a","s","h","b","o","a","r","d"," ","2","0","2","5">>

\* the month the first cell of the month column that is not missing reads;
\* an empty cell and the text "n/a" are missing values
FirstMonth(months) ==
    LET filled == {i \in 1..Len(months) :
                      months[i].cell \notin {Blank, Txt(<<"n","/","a">>)}}
        first == CHOOSE i \in filled : \A j \in filled : i <= j
    IN IF filled = {} THEN NaT ELSE months[first].month

\* the three tiers, read off the input
Tier1(in) ==
    IF in.dash /\ in.months.col THEN FirstMonth(in.months.cells) ELSE NaT

Tier2(in) ==
    IF in.period.on = 0 \/ in.period.row > 50 THEN NaT
    ELSE IF in.period.right1.month # NaT THEN in.period.right1.month
    ELSE in.period.right2.month

Tier3(in) == in.file.month

C30_ValidMonth ==
    call.fn = "detect_as_of_month" =>
        /\ call.res[1] \in 1000..9999
        /\ call.res[2] \in 1..12

\* the month named by the label of header row hr in column c, 0 if none
LabelMonth(ws, hr, c) ==
    IF CellAt(ws, hr, c).k = "str" THEN MonthOf(Strip(CellAt(ws, hr, c).s)) ELSE 0

\* the dashboard row holds the metric cells of column c
FromColumn(ws, row, c) ==
    /\ LabelMonth(ws, 29, c) = row.month[2]
    /\ row.rent_base = Metric(ws, 30, c)
    /\ row.collected = Metric(ws, 32, c)
    /\ row.uncollected = Metric(ws, 33, c)
    /\ row.leased_sqft = Metric(ws, 35, c)
    /\ row.price_per_sf_yr = Metric(ws, 36, c)

\* the expense record holds the cell of item row e in column c
FromItemCell(ws, rec, e, c) ==
    /\ LabelMonth(ws, 40, c) = rec.month[2]
    /\ rec.expense_category = e.category
    /\ CellAt(ws, e.row, c) # Blank
    /\ rec.actual = ToFloat(CellAt(ws, e.row, c))

\* C26: in the dashboard and in the expenses extractor the value recorded for
\* a month is read from the column in which the label of that month stands in
\* the header row (29 and 40), whatever the header row holds: a blank cell
\* between two labels, or a label that names no month elsewhere in the row.
C26_SameColumn ==
    /\ (call.fn = "dashboard" /\ call.res.ok) =>
          \A i \in 1..Len(call.res.rows) :
              \E c \in 1..MaxCol(DashSheet(call.in)) :
                  FromColumn(DashSheet(call.in), call.res.rows[i], c)
    /\ (call.fn = "expenses" /\ call.res.ok) =>
          \A i \in 1..Len(call.res.rows) :
              \E c \in 9..20, k \in 1..Len(expense_items) :
                  FromItemCell(DashSheet(call.in), call.res.rows[i],
                               expense_items[k], c)

C28_RetryAfterFailure ==
    \A p \in Procs :
        (/\ Done(p)
         /\ run[p].prev.outcome = "failed"
         /\ run[p].prev.file_md5 = run[p].file_md5
         /\ run[p].prev.as_of_month = run[p].as_of_month)
        => run[p].outcome # "skipped"

\* C29: after a run that ends with success for fingerprint d and period P,
\* every record of partition P of the three tables carries d; no partition P
\* still holds records of an earlier file.
C29_OnlyThisFile ==
    \A p \in Procs :
        (Done(p) /\ run[p].outcome = "success") =>
            \A t \in Tables :
                Fingerprints(store, <<t, run[p].as_of_month>>)
                    \subseteq {run[p].file_md5}

\* C25: nothing serialises two processes that ingest the same fingerprint and
\* period: the verdict of the guard of a process is decided by what the
\* dashboard partition holds at the moment the guard reads it, wherever the
\* other process stands; so when both read before either writes, both pass,
\* both write the partitions and both log success.
C25_GuardReadsPartitionOnly ==
    [][\A p \in Procs :
          (pc[p] = "check" /\ pc'[p] # "check") =>
              /\ pc'[p] \in {"done", "dashboard"}
              /\ (pc'[p] = "done") <=>
                    (run[p].file_md5 \in
                       Fingerprints(store, <<"dashboard", run[p].as_of_month>>))
              /\ (pc'[p] = "done") <=> (run'[p].outcome = "skipped")]_vars

\* both processes ran the regular workbook, nothing else was run, and the log
\* holds two entries, both with status success: neither run was skipped
C25_Witness ==
    /\ nruns = 2 /\ faults = 0
    /\ \A p \in Procs : /\ Done(p) /\ run[p].outcome = "success"
                         /\ run[p].file_md5 = 1
                         /\ run[p].as_of_month = <<2025, 1>>
    /\ Len(log) = 2
    /\ \A i \in 1..2 : /\ log[i].status = "success"
                        /\ log[i].file_md5 = 1
                        /\ log[i].as_of_month = <<2025, 1>>

\* the columns of a stored record that break the rules of its table: no
\* negative amount (uncollected excepted), a building A or B or none, a known
\* expense category, a tenant
Negative(v) == v.k = "val" /\ v.n < 0

Offending(rec) ==
    IF rec.table = "dashboard"
    THEN {c \in {"rent_base", "collected", "leased_sqft", "price_per_sf_yr"} :
            Negative(rec.data[c])}
    ELSE IF rec.table = "expenses"
    THEN {c \in {"actual"} : Negative(rec.data[c])}
         \cup {c \in {"expense_category"} :
                 rec.data[c] \notin {"fixed", "variable", "other"}}
    ELSE {c \in {"sqft", "rent_monthly", "rent_annual", "rent_psf_yr"} :
            Negative(rec.data[c])}
         \cup {c \in {"building"} : rec.data[c] \notin {"A", "B", "null"}}
         \cup {c \in {"tenant"} : rec.data[c].k = "blank"}

\* the offending cells of a partition, by row and column
OffendingCells(st, table, partition) ==
    LET files == Files(st, <<table, partition>>)
        cells(rows) ==
            UNION {{[index |-> j, column |-> c] : c \in Offending(rows[j])} :
                     j \in 1..Len(rows)}
    IN UNION {cells(files[i].rows) : i \in 1..Len(files)}

\* the partitions of a table that hold an offending cell
FailingPartitions(st, table) ==
    {P \in PartitionsOf(st, table) : OffendingCells(st, table, P) # {}}

\* the quarantine directory of the partition holds a report written at time
\* ts that lists every offending cell, and a sample of the offending rows
Quarantined(st, before, table, partition, ts) ==
    LET files == Files(st, <<"_errors", table, partition>>)
    IN /\ \E i \in 1..Len(files) :
            /\ files[i].name = <<"errors", ts>>
            /\ {[index |-> e.index, column |-> e.column] : e \in files[i].rows}
                 = OffendingCells(before, table, partition)
       /\ \E i \in 1..Len(files) :
            /\ files[i].name = <<"sample_failures", ts>>
            /\ files[i].rows # {}
            /\ files[i].rows \subseteq OffendingCells(before, table, partition)

\* the elements of a sequence
Range(seq) == {seq[i] : i \in 1..Len(seq)}

\* C22: for a partition whose records violate the schema, validation reports
\* every violation of the partition and writes the report and a sample of the
\* offending rows to the quarantine area; in hard-fail mode it then raises,
\* so that the partitions after the first failing one are not validated; in
\* soft mode it goes on, so that every partition is validated, and
\* validate_bronze_table returns true exactly when all partitions passed.
C22_ValidateTable ==
    call.fn = "validate_bronze_table" =>
        LET before == call.in.store
            table == call.in.table_name
            all == PartitionsOf(before, table)
            failing == FailingPartitions(before, table)
            first == CHOOSE P \in failing :
                         \A Q \in failing \ {P} : NameBefore(P, Q)
            visited == call.res.visited
        IN /\ Len(visited) = Cardinality(Range(visited))
           /\ \A P \in Range(visited) \cap failing :
                  Quarantined(store, before, table, P, nruns)
           /\ IF call.in.hard_fail /\ failing # {}
              THEN /\ call.res.outcome = "raised"
                   /\ Range(visited) =
                        {P \in all : P = first \/ NameBefore(P, first)}
              ELSE /\ Range(visited) = all
                   /\ call.res.outcome \in {"true", "false"}
                   /\ (call.res.outcome = "true") <=> (failing = {})

\* a hard-fail call on a table whose first partition has two offending cells
\* and whose later partition is left unvalidated
C22_Witness ==
    /\ call.fn = "validate_bronze_table"
    /\ call.in.hard_fail
    /\ call.res.outcome = "raised"
    /\ Len(call.res.visited) = 1
    /\ Cardinality(PartitionsOf(call.in.store, call.in.table_name)) = 2
    /\ Cardinality(OffendingCells(call.in.store, call.in.table_name,
                                  call.res.visited[1])) >= 2

\* C23: validation changes no data it checks: in either mode, passing or
\* failing, every partition directory holds after the validation the record
\* files it held before, unchanged; the only effect on storage is that files
\* are added under the quarantine area.
C23_ValidationFrame ==
    call.fn \in {"validate_bronze_table", "run_quality"} =>
        LET before == call.in.store
        IN /\ \A key \in DOMAIN before :
                /\ key \in DOMAIN store
                /\ Len(key) = 2 => store[key] = before[key]
                /\ Range(before[key]) \subseteq Range(store[key])
           /\ \A key \in DOMAIN store \ DOMAIN before : key[1] = "_errors"

\* a soft call that found a failing partition and added quarantine files
C23_Witness ==
    /\ call.fn = "validate_bronze_table"
    /\ ~call.in.hard_fail
    /\ call.res.outcome = "false"
    /\ \E key \in DOMAIN store \ DOMAIN call.in.store :
          /\ key[1] = "_errors"
          /\ Len(store[key]) = 2
    /\ \E key \in DOMAIN call.in.store : call.in.store[key] # <<>>

\* C24: in the pipeline that runs ingestion and then quality validation, no
\* partition is validated after a run that ended with status skipped.
C24_SkippedNotValidated ==
    (call.fn = "run_quality" /\ run[call.in.p].outcome = "skipped")
        => call.res.visited = <<>>

====
